---- MODULE Spec2Model ----
(***************************************************************************)
(* The client multiplexer of a remote broker connection                    *)
(* (lofire-broker/src/connection.rs): the caller task that issues unary   *)
(* and streaming requests, the per-request actors that receive the         *)
(* responses, the per-stream cleanup tasks, the consumer of a block        *)
(* stream and the reader task that dispatches the frames of the link.      *)
(* The broker is the environment: it may put any frame on the link.        *)
(*                                                                         *)
(* Two further specifications share the state: the handshake of            *)
(* open_broker_connection on several transports, against a broker or       *)
(* another peer (HandshakeSpec), and the operations of the connection      *)
(* facade run on a local and on a remote connection over a broker engine   *)
(* (FacadeSpec).  RegistrySpec is the overlay registry of the broker over  *)
(* its store (lofire-broker/src/overlay.rs), LoopSpec the connection loop  *)
(* of the node daemon on one socket (lofire-node/src/main.rs).  LockSpec   *)
(* follows the locks of the two pending tables through the positions of    *)
(* the tasks that take them.                                               *)
(***************************************************************************)
EXTENDS Naturals, Sequences, FiniteSets

\* ---------------------------------------------------------------- bounds
\* number of requests issued over the lifetime of the connection
MaxReq == 2
\* number of frames the reader task reads from the link
MaxFrames == 3
\* number of facade operations invoked on each connection
MaxOps == 4
\* number of transports on which a handshake runs
MaxSessions == 2
\* the largest code an AuthResult carries
MaxCode == 3
\* the requests a connection writes after the handshake
MaxHsRequests == 1
\* the adds of one member of an overlay that are counted
MaxCopies == 2
\* the operations invoked on the overlay registry
MaxRegOps == 5
\* the frames the broker's connection loop reads from one socket
MaxLoopReq == 2
\* the largest result code a reply of the broker's handler carries
MaxLoopCode == 1
\* the streams of one connection that are open at once
MaxOpenStreams == 2

Ids == 1..MaxReq
\* an id that no request of the connection carries
UnknownId == 0

\* ------------------------------------------------------------ data domain
Blocks == {"b1", "b2"}
NoBlock == "none"

\* result codes of a response (ProtocolError as u16; OK is code 0)
OK == "OK"
EndOfStream == "EndOfStream"
Errors == {"OverlayNotJoined", "NotFound"}
Results == {OK, EndOfStream} \cup Errors

\* the repo link given to overlay_connect and the two ways to derive an id
RepoLink == [id |-> "repo", secret |-> "secret", peers |-> "peers"]

\* OverlayConnectionClient::overlay: BLAKE3 of the repo id for a public
\* overlay, keyed BLAKE3 under a key derived from the secret otherwise
overlay(repo_link, public) ==
    IF public
    THEN <<"blake3", repo_link.id>>
    ELSE <<"keyed_hash", <<"derive_key", repo_link.secret>>, repo_link.id>>

\* ----------------------------------------------------------------- frames
\* BrokerMessageContentV0 / BrokerOverlayMessageContentV0 variants
ResponseFrames ==
    [type : {"BrokerOverlayResponse"}, id : Ids, result : {OK}, block : Blocks]
    \cup [type : {"BrokerOverlayResponse"}, id : Ids \cup {UnknownId},
          result : Results, block : {NoBlock}]
    \cup [type : {"BrokerResponse"}, id : Ids, result : {OK} \cup Errors, block : {NoBlock}]

RequestFrames ==
    [type : {"BrokerRequest", "BrokerOverlayRequest"}, id : {1}, result : {OK}, block : {NoBlock}]

EventFrames ==
    [type : {"Event"}, id : {1}, result : {OK}, block : {NoBlock}]

Frames == ResponseFrames \cup RequestFrames \cup EventFrames

\* BrokerMessage::is_request
is_request(m) == m.type \in {"BrokerRequest", "BrokerOverlayRequest"}

\* a classification that takes every frame that is no request for a
\* response
is_response_or_event(m) == m.type \notin {"BrokerRequest", "BrokerOverlayRequest"}

\* BrokerMessage::is_response
is_response(m) == m.type \in {"BrokerResponse", "BrokerOverlayResponse"}

\* BrokerMessage::is_overlay
is_overlay(m) == m.type \in {"BrokerOverlayRequest", "BrokerOverlayResponse", "Event"}

\* BrokerMessage::response_block
response_block(m) == IF m.type = "BrokerOverlayResponse" THEN m.block ELSE NoBlock

\* BrokerMessage -> Result<(), ProtocolError>: code 0 is Ok, any other code
\* is the error of that code
ToUnit(m) == IF m.result = OK THEN "Ok" ELSE m.result

\* BrokerMessage -> Result<Option<Block>, ProtocolError>: OK and the stream
\* sentinel carry an optional block, any other code is an error
ToBlockOpt(m) ==
    IF m.result \in {OK, EndOfStream}
    THEN [tag |-> "Ok", block |-> IF is_overlay(m) THEN response_block(m) ELSE NoBlock]
    ELSE [tag |-> "Err", err |-> m.result]

\* ------------------------------------------------------------------ state
VARIABLES
    nextId,         \* the actor id the next started actor gets
    caller,         \* the task that owns the connection (&mut self)
    actors,         \* keys of BrokerConnectionRemote.actors
    stream_actors,  \* keys of BrokerConnectionRemote.stream_actors
    addr,           \* ids whose actor still has a strong Addr
    akind,          \* id -> "none" | "unary" | "stream"
    astate,         \* id -> "none" | "running" | "stopped"
    mailbox,        \* id -> events queued for the actor
    slot,           \* id -> the oneshot of a BrokerMessageActor
    error_s,        \* ids whose stream actor still holds error_s
    error_r,        \* id -> what the error oneshot carries
    chan,           \* id -> blocks queued in the block channel
    closed,         \* ids whose block channel is closed
    handle,         \* id -> state of the block receiver
    consumed,       \* id -> blocks the consumer has taken
    cleanup,        \* ids with a spawned cleanup task not yet finished
    ret,            \* id -> what the call with that request id returned
    connret,        \* id of an OverlayConnect -> what overlay_connect returned
    reader,         \* "running" | "ended" | "panicked"
    log,            \* id -> the responses read from the link with that id
    nread,          \* number of frames read
    requestSeen,    \* a request frame has been read
    eventSeen,      \* an overlay message carrying an Event has been read
    sent            \* the request frames written to the link

\* the handshake of open_broker_connection, per transport
VARIABLES
    hcfg,           \* transport -> the peer and the arguments of the call
    hpc,            \* transport -> position of open_broker_connection
    hret,           \* transport -> what open_broker_connection returned
    c2s,            \* transport -> the frames the client has written
    s2c,            \* transport -> the frames the client has yet to read
    spc,            \* transport -> position of the broker's handler, its result
    issued,         \* transport -> the nonce of the ServerHello it carried
    sproc,          \* transport -> broker requests the broker has processed
    hlog            \* transport -> what open_broker_connection sent and read

\* the facade over a broker engine, once through a local and once through a
\* remote connection
VARIABLES
    broker,         \* side -> users, overlay registry and block store
    oc,             \* side -> overlay of the OverlayConnectionClient
    hist            \* the facade operations invoked, with their results

\* the overlay registry over its store
VARIABLES
    kv,             \* overlay id -> suffix -> value -> copies stored
    rlast,          \* the last operation on the registry, its result, their number
    rmem            \* overlay id -> suffix -> member -> adds since its last remove

\* the connection loop of the node daemon on one socket
VARIABLES
    lpc,            \* position of the loop task of connection_loop
    nmsg,           \* number of binary messages the loop task has read
    replies,        \* what handle_incoming returned for the last message
    producing,      \* request id -> frames its producer has yet to queue
    receiver,       \* the async frames queued for the async frames task
    atask,          \* "running" | "ended": the async frames task
    ws,             \* the frames written to the socket, in order
    lwhy            \* why the loop task left its loop

\* the locks of the pending tables
VARIABLES
    tpc,            \* task -> its position in the code that locks the tables
    answered,       \* the reader has sent the issuing call its first response
    stoppable       \* the cleanup tasks whose actor has stopped

client == <<nextId, caller, actors, stream_actors, addr, ret, connret, sent>>
actorv == <<akind, astate, mailbox, slot, error_s, error_r>>
streamv == <<chan, closed, handle, consumed, cleanup>>
readerv == <<reader, log, nread, requestSeen, eventSeen>>
muxv == <<client, actorv, streamv, readerv>>
hsv == <<hcfg, hpc, hret, c2s, s2c, spc, issued, sproc, hlog>>
facv == <<broker, oc, hist>>
regv == <<kv, rlast, rmem>>
loopv == <<lpc, nmsg, replies, producing, receiver, atask, ws, lwhy>>
lockv == <<tpc, answered, stoppable>>
vars == <<muxv, hsv, facv, regv, loopv, lockv>>

\* ------------------------------------------------- the broker engine
\* the transports of the handshake
Sessions == 1..MaxSessions

\* no call of open_broker_connection on the transport yet
NoConfig == [peer |-> "none", user |-> "none", user_pk |-> <<>>, client |-> "none"]

\* the two connections of the facade
Sides == {"local", "remote"}

\* the user of the connection, who signs AddUser as admin, and the users
\* that may be added
ConnUser == "admin"
Users == {"u1", "u2"}

\* BlockId: the digest of the block
block_id(b) == <<"blake3", b>>

\* the blocks of one object: the root has two children that share one child
TreeBlocks == {"root", "left", "right", "leaf"}

\* Block::children: the ids of the children of a block
children(b) ==
    IF b = "root" THEN <<block_id("left"), block_id("right")>>
    ELSE IF b \in {"left", "right"} THEN <<block_id("leaf")>>
    ELSE <<>>

\* Object::blocks: the blocks of the object, children before parents; the
\* chunk the two inner blocks share is listed once for each of them
ObjectBlocks == <<"leaf", "left", "leaf", "right", "root">>
ObjectId == block_id("root")

\* the private key of a public key
PrivKeyOf(pk) == <<"sk", pk>>

\* sign: an Ed25519 signature of the content by the keypair (sk, pk)
sign(author_privkey, author_pubkey, content) ==
    [sk |-> author_privkey, pk |-> author_pubkey, content |-> content]

\* verify: the signature was made over that content by the keypair of
\* pub_key
verify(content, sig, pub_key) ==
    /\ sig.pk = pub_key
    /\ sig.sk = PrivKeyOf(pub_key)
    /\ sig.content = content

\* the results of a facade operation: Ok with the overlay, the block id or
\* the blocks it yields, or Err with a ProtocolError
ROk == [tag |-> "Ok", err |-> "none", overlay |-> <<>>, id |-> <<>>, blocks |-> <<>>]
RErr(e) == [ROk EXCEPT !.tag = "Err", !.err = e]
\* Result<(), ProtocolError> of a request as a result of the facade
RUnit(r) == IF r = "Ok" THEN ROk ELSE RErr(r)

\* a broker with no user, no overlay and no block, whose store refuses the
\* write of no block
EmptyBroker == [users |-> {}, overlays |-> {}, store |-> {}, refuses |-> "none"]

\* Overlay::exists: the overlay has a secret property
exists(b, ov) == \E o \in b.overlays : o.id = ov

\* Overlay::create: fails if the overlay exists, else writes the secret and
\* the metadata with one user
create(b, ov, secret) ==
    IF exists(b, ov)
    THEN [res |-> "BackendError", broker |-> b]
    ELSE [res |-> "Ok",
          broker |-> [b EXCEPT !.overlays = @ \cup
              {[id |-> ov, secret |-> secret, peers |-> {}, topics |-> {}, users |-> 1]}]]

\* a broker that adds a user it already has
engine_add_user_again(b, user, admin, sig) ==
    [res |-> "Ok", broker |-> [b EXCEPT !.users = @ \cup {user}]]

\* BrokerServer::add_user: the signature must verify under the admin's key
\* and the user must be new
engine_add_user(b, user, admin, sig) ==
    IF ~verify(<<"AddUserContentV0", user>>, sig, admin)
    THEN [res |-> "SignatureError", broker |-> b]
    ELSE IF admin # ConnUser
    THEN [res |-> "NotAnAdmin", broker |-> b]
    ELSE IF user \in b.users
    THEN [res |-> "UserAlreadyExists", broker |-> b]
    ELSE [res |-> "Ok", broker |-> [b EXCEPT !.users = @ \cup {user}]]

\* BrokerServer::overlay_connect: the overlay must exist on the broker
engine_overlay_connect(b, ov) ==
    [res |-> IF exists(b, ov) THEN "Ok" ELSE "OverlayNotJoined", broker |-> b]

\* BrokerServer::overlay_join: create the overlay if absent and add the
\* peers; an overlay that exists is already joined, or its secret differs
engine_overlay_join(b, ov, secret, peers) ==
    IF exists(b, ov)
    THEN [res |-> IF \E o \in b.overlays : o.id = ov /\ o.secret = secret
                  THEN "OverlayAlreadyJoined" ELSE "InvalidSecret",
          broker |-> b]
    ELSE LET c == create(b, ov, secret) IN
         [res |-> c.res,
          broker |-> [c.broker EXCEPT !.overlays =
              {IF o.id = ov THEN [o EXCEPT !.peers = @ \cup {peers}] ELSE o : o \in @}]]

\* a broker that acknowledges a block without storing it
engine_block_put_dropped(b, ov, block) == [res |-> "Ok", broker |-> b]

\* BrokerServer::block_put: store the block under its id, or report the
\* error of the store
engine_block_put(b, ov, block) ==
    IF block = b.refuses THEN [res |-> "StorageError", broker |-> b]
    ELSE [res |-> "Ok", broker |-> [b EXCEPT !.store = @ \cup {block}]]

\* the stored block with that id, as a sequence of at most one block
stored(b, id) ==
    IF \E x \in b.store : block_id(x) = id
    THEN <<CHOOSE x \in b.store : block_id(x) = id>>
    ELSE <<>>

RECURSIVE traverse_nodedup(_, _, _)
\* a traversal that emits a block once for every path that leads to it
traverse_nodedup(b, queue, seen) ==
    IF queue = <<>> THEN <<>>
    ELSE IF stored(b, Head(queue)) = <<>>
    THEN traverse_nodedup(b, Tail(queue), seen)
    ELSE LET x == stored(b, Head(queue))[1] IN
         <<x>> \o traverse_nodedup(b, Tail(queue) \o children(x), seen)

RECURSIVE traverse(_, _, _)
\* breadth-first traversal from the queue of ids, skipping the ids already
\* emitted and the blocks that are not stored
traverse(b, queue, seen) ==
    IF queue = <<>> THEN <<>>
    ELSE IF Head(queue) \in seen \/ stored(b, Head(queue)) = <<>>
    THEN traverse(b, Tail(queue), seen)
    ELSE LET x == stored(b, Head(queue))[1] IN
         <<x>> \o traverse(b, Tail(queue) \o children(x), seen \cup {Head(queue)})

\* a broker that answers a BlockGet of a missing root with an empty stream
engine_block_get_empty(b, ov, id, include_children) ==
    [res |-> "Ok",
     blocks |-> IF include_children THEN traverse(b, <<id>>, {}) ELSE stored(b, id)]

\* BrokerServer::block_get: the blocks emitted for the request, root
\* first, or NotFound when the root is missing
engine_block_get(b, ov, id, include_children) ==
    IF stored(b, id) = <<>>
    THEN [res |-> "NotFound", blocks |-> <<>>]
    ELSE [res |-> "Ok",
          blocks |-> IF include_children THEN traverse(b, <<id>>, {}) ELSE stored(b, id)]

\* BrokerServer::object_del: remove the root and its descendants
engine_object_del(b, ov, id) ==
    IF stored(b, id) = <<>>
    THEN [res |-> "NotFound", broker |-> b]
    ELSE LET gone == {x \in b.store :
                 \E k \in 1..Len(traverse(b, <<id>>, {})) : traverse(b, <<id>>, {})[k] = x}
         IN [res |-> "Ok", broker |-> [b EXCEPT !.store = @ \ gone]]

\* ------------------------------------------ the data of the connection loop
\* the ids of the requests one socket carries
LoopIds == 1..MaxLoopReq

\* the binary messages a client writes: a broker request, streamed or not,
\* that the broker completes with that result code, a ClientAuth the broker
\* answers with that code, and bytes that decode to no message
LoopFrames ==
    {[kind |-> "request", stream |-> st, code |-> c] : st \in BOOLEAN, c \in 0..MaxLoopCode}
    \cup {[kind |-> "auth", stream |-> FALSE, code |-> c] : c \in 0..MaxLoopCode}
    \cup {[kind |-> "undecodable", stream |-> FALSE, code |-> 0]}

\* handle_incoming has not been called
NoReplies == [id |-> 0, kind |-> "none", reply |-> "none", code |-> 0,
              errcode |-> <<>>, frames |-> <<>>]

\* ------------------------------------- the store of the overlay registry
\* the overlay ids, and the values of the properties of an overlay
Overlays == {"o1", "o2"}
Secrets == {"s1", "s2"}
Repos == {"r1"}
Peers == {"p1"}
Topics == {"t1"}
Timestamps == {1, 2}

\* serde_bare::to_vec of an OverlayMeta: the fields in their order
meta_to_vec(meta) == <<meta.users, meta.last_used>>
Metas == {meta_to_vec([users |-> 1, last_used |-> now]) : now \in Timestamps}

\* the suffixes of the properties, ALL_PROPERTIES in its order, and the
\* values each may hold
SECRET == "s"
PEER == "p"
TOPIC == "t"
META == "m"
REPO == "r"

\* a list of the suffixes that leaves out the repo
ALL_BUT_REPO == <<SECRET, PEER, TOPIC, META>>

\* Overlay::ALL_PROPERTIES: the suffixes del removes
ALL_PROPERTIES == <<SECRET, PEER, TOPIC, META, REPO>>

SUFFIX_FOR_EXIST_CHECK == SECRET
PropValues(prop) ==
    IF prop = SECRET THEN Secrets
    ELSE IF prop = PEER THEN Peers
    ELSE IF prop = TOPIC THEN Topics
    ELSE IF prop = META THEN Metas
    ELSE Repos

\* the store with nothing under the prefix of the overlays: for each
\* overlay id and suffix, how many times each value is stored
EmptyStore ==
    [id \in Overlays |->
        [prop \in {SECRET, PEER, TOPIC, META, REPO} |-> [v \in PropValues(prop) |-> 0]]]

\* the members of the overlays, each with the number of times it was added
\* since it was last removed
NoMembers ==
    [id \in Overlays |-> [prop \in {PEER, TOPIC} |-> [v \in PropValues(prop) |-> 0]]]

\* no operation on the registry yet
NoRegOp == [op |-> "none", id |-> "none", prop |-> "none", res |-> "none",
            added |-> 0, had |-> {}, n |-> 0]

\* ---------------------------------------- the locks of the pending tables
\* the tasks that lock a pending table: the reader task, the issuing call
\* (one at a time: the calls take &mut self) and the cleanup task of every
\* open stream
CleanupNames == <<"cleanup1", "cleanup2", "cleanup3">>
CleanupTasks == {CleanupNames[k] : k \in 1..MaxOpenStreams}
LockTasks == {"reader", "call"} \cup CleanupTasks

\* guards of an issuing call that live until the write of the frame is over
live_guards_over_write(pc) ==
    CASE pc \in {"u_insert", "u_write", "u_remove", "r_get", "r_lock2"} -> {"actors"}
      [] pc \in {"s_insert", "s_write", "s_remove", "c_remove"} -> {"stream_actors"}
      [] pc = "r_get2" -> {"actors", "stream_actors"}
      [] OTHER -> {}

\* a cleanup task that takes the write lock before it waits for its actor
live_guards_before_wait(pc) ==
    CASE pc \in {"u_insert", "u_remove", "r_get", "r_lock2"} -> {"actors"}
      [] pc \in {"s_insert", "s_remove", "c_wait", "c_remove"} -> {"stream_actors"}
      [] pc = "r_get2" -> {"actors", "stream_actors"}
      [] OTHER -> {}

\* the tables whose lock guard is alive at a position: the guard of an
\* insert lives to the end of its block, the guard of a remove to the end of
\* its arm or task, the reader's guard of actors to the end of the block
\* around its lookup, its guard of stream_actors to the end of the None arm
live_guards(pc) ==
    CASE pc \in {"u_insert", "u_remove", "r_get", "r_lock2"} -> {"actors"}
      [] pc \in {"s_insert", "s_remove", "c_remove"} -> {"stream_actors"}
      [] pc = "r_get2" -> {"actors", "stream_actors"}
      [] OTHER -> {}

\* the positions at which a task is suspended in an await
awaits(pc) == pc \in {"next", "u_write", "u_wait", "s_write", "s_first", "c_wait"}

\* the table whose lock a task at a position has requested and not yet got
requests(pc) ==
    CASE pc \in {"u_lock", "u_relock", "r_lock"} -> <<"actors">>
      [] pc \in {"s_lock", "s_relock", "c_lock", "r_lock2"} -> <<"stream_actors">>
      [] OTHER -> <<>>

\* the position a task is at once its request is granted
granted(pc) ==
    CASE pc = "u_lock" -> "u_insert"
      [] pc = "u_relock" -> "u_remove"
      [] pc = "s_lock" -> "s_insert"
      [] pc = "s_relock" -> "s_remove"
      [] pc = "c_lock" -> "c_remove"
      [] pc = "r_lock" -> "r_get"
      [] pc = "r_lock2" -> "r_get2"
      [] OTHER -> pc

\* the reader task calls read(), the issuing call and the cleanup tasks
\* call write()
mode(t) == IF t = "reader" THEN "read" ELSE "write"

Idle == [op |-> "none", pc |-> "idle", id |-> 0, req |-> "none",
         public |-> FALSE, first |-> 0]

\* the event ctx.stop() queues in the mailbox of its actor
Stop == [type |-> "Stop", id |-> 0, result |-> OK, block |-> NoBlock]

Init ==
    /\ nextId = 1
    /\ caller = Idle
    /\ actors = {}
    /\ stream_actors = {}
    /\ addr = {}
    /\ akind = [i \in Ids |-> "none"]
    /\ astate = [i \in Ids |-> "none"]
    /\ mailbox = [i \in Ids |-> <<>>]
    /\ slot = [i \in Ids |-> <<>>]
    /\ error_s = {}
    /\ error_r = [i \in Ids |-> "unset"]
    /\ chan = [i \in Ids |-> <<>>]
    /\ closed = {}
    /\ handle = [i \in Ids |-> "none"]
    /\ consumed = [i \in Ids |-> <<>>]
    /\ cleanup = {}
    /\ ret = [i \in Ids |-> "none"]
    /\ connret = [i \in Ids |-> "none"]
    /\ reader = "running"
    /\ log = [i \in Ids |-> <<>>]
    /\ nread = 0
    /\ requestSeen = FALSE
    /\ eventSeen = FALSE
    /\ sent = <<>>
    /\ hcfg = [t \in Sessions |-> NoConfig]
    /\ hpc = [t \in Sessions |-> "closed"]
    /\ hret = [t \in Sessions |-> "none"]
    /\ c2s = [t \in Sessions |-> <<>>]
    /\ s2c = [t \in Sessions |-> <<>>]
    /\ spc = [t \in Sessions |-> [pc |-> "closed", read |-> 0, result |-> 0]]
    /\ issued = [t \in Sessions |-> <<>>]
    /\ sproc = [t \in Sessions |-> 0]
    /\ hlog = [t \in Sessions |-> <<>>]
    /\ broker = [side \in Sides |-> EmptyBroker]
    /\ oc = [side \in Sides |-> <<>>]
    /\ hist = <<>>
    /\ kv = EmptyStore
    /\ rlast = NoRegOp
    /\ rmem = NoMembers
    /\ lpc = "read"
    /\ nmsg = 0
    /\ replies = NoReplies
    /\ producing = [id \in LoopIds |-> <<>>]
    /\ receiver = <<>>
    /\ atask = "running"
    /\ ws = <<>>
    /\ lwhy = "none"
    /\ tpc = [t \in LockTasks |->
                 IF t = "reader" THEN "next" ELSE IF t = "call" THEN "idle" ELSE "none"]
    /\ answered = FALSE
    /\ stoppable = {}

\* ------------------------------------------------------------ the caller
\* an overlay_connect that sends OverlayJoin whatever OverlayConnect returned
ConnectDecision_always(res) == "join"

\* an overlay_connect that falls back to OverlayJoin on every error
ConnectDecision_anyerror(res) == IF res = "Ok" THEN "return" ELSE "join"

\* overlay_connect's match on the result of its OverlayConnect request
ConnectDecision(res) ==
    IF res = "Ok" THEN "return"
    ELSE IF res = "OverlayNotJoined" THEN "join"
    ELSE "return"

\* a request call returns r to the operation that issued it; overlay_connect
\* either returns it or falls back to OverlayJoin
Return(id, r) ==
    /\ ret' = [ret EXCEPT ![id] = r]
    /\ IF caller.op = "connect"
       THEN IF caller.req = "OverlayConnect" /\ ConnectDecision(r) = "join"
            THEN /\ caller' = [caller EXCEPT !.pc = "fallback", !.id = 0]
                 /\ UNCHANGED connret
            ELSE /\ caller' = Idle
                 /\ connret' = [connret EXCEPT ![caller.first] = r]
       ELSE /\ caller' = Idle
            /\ UNCHANGED connret

\* an actor start that hands out the same id again
StartActor_same_id(kind) ==
    /\ nextId <= MaxReq
    /\ nextId' = nextId
    /\ akind' = [akind EXCEPT ![nextId] = kind]
    /\ astate' = [astate EXCEPT ![nextId] = "running"]
    /\ addr' = addr \cup {nextId}
    /\ error_s' = IF kind = "stream" THEN error_s \cup {nextId} ELSE error_s

\* BrokerMessageActor::new / BrokerMessageStreamActor::new, actor.start()
\* and addr.actor_id(): a running actor with a fresh id and a strong Addr
StartActor(kind) ==
    /\ nextId <= MaxReq
    /\ nextId' = nextId + 1
    /\ akind' = [akind EXCEPT ![nextId] = kind]
    /\ astate' = [astate EXCEPT ![nextId] = "running"]
    /\ addr' = addr \cup {nextId}
    /\ error_s' = IF kind = "stream" THEN error_s \cup {nextId} ELSE error_s

\* before!: start a BrokerMessageActor and insert its weak address in actors
before(c) ==
    /\ StartActor("unary")
    /\ actors' = actors \cup {nextId}
    /\ caller' = [c EXCEPT !.pc = "write", !.id = nextId,
                           !.first = IF c.first = 0 THEN nextId ELSE c.first]
    /\ UNCHANGED <<stream_actors, ret, connret, sent>>
    /\ UNCHANGED <<mailbox, slot, error_r, streamv, readerv>>
    /\ UNCHANGED <<hsv, facv, regv, loopv, lockv>>

\* process_overlay_request(overlay, BlockPut) and add_user, up to the write
StartUnary(req) ==
    /\ caller.pc = "idle"
    /\ before([Idle EXCEPT !.op = "unary", !.req = req, !.public = TRUE])

\* overlay_connect: the OverlayConnect request, up to the write
StartConnect(public) ==
    /\ caller.pc = "idle"
    /\ nextId + 1 <= MaxReq
    /\ before([Idle EXCEPT !.op = "connect", !.req = "OverlayConnect", !.public = public])

\* overlay_connect: the OverlayJoin request after OverlayNotJoined
JoinFallback ==
    /\ caller.pc = "fallback"
    /\ before([caller EXCEPT !.req = "OverlayJoin"])

\* a streaming call that starts its actor and writes the request without
\* having inserted the weak address in stream_actors
StartStream_uninstalled ==
    /\ caller.pc = "idle"
    /\ StartActor("stream")
    /\ caller' = [Idle EXCEPT !.op = "stream", !.req = "BlockGet", !.pc = "write",
                              !.id = nextId, !.first = nextId, !.public = TRUE]
    /\ UNCHANGED <<actors, stream_actors, ret, connret, sent>>
    /\ UNCHANGED <<mailbox, slot, error_r, streamv, readerv>>
    /\ UNCHANGED <<hsv, facv, regv, loopv, lockv>>

\* process_overlay_request_stream_response, up to the write: start the
\* stream actor and insert its weak address in stream_actors
StartStream ==
    /\ caller.pc = "idle"
    /\ StartActor("stream")
    /\ stream_actors' = stream_actors \cup {nextId}
    /\ caller' = [Idle EXCEPT !.op = "stream", !.req = "BlockGet", !.pc = "write",
                              !.id = nextId, !.first = nextId, !.public = TRUE]
    /\ UNCHANGED <<actors, ret, connret, sent>>
    /\ UNCHANGED <<mailbox, slot, error_r, streamv, readerv>>
    /\ UNCHANGED <<hsv, facv, regv, loopv, lockv>>

\* the request frame a call writes, tagged with the operation that wrote it
\* (the id of the operation's first request)
RequestFrame(c) ==
    [op |-> c.first, id |-> c.id, req |-> c.req,
     overlay |-> IF c.req = "AddUser" THEN <<"none">> ELSE overlay(RepoLink, c.public),
     content |-> IF c.req = "OverlayJoin"
                 THEN <<RepoLink.secret, RepoLink.peers>> ELSE <<>>]

\* writer.send(frame).await succeeds
WriteOk ==
    /\ caller.pc = "write"
    /\ sent' = Append(sent, RequestFrame(caller))
    /\ caller' = [caller EXCEPT !.pc = "await"]
    /\ UNCHANGED <<nextId, actors, stream_actors, addr, ret, connret>>
    /\ UNCHANGED <<actorv, streamv, readerv>>
    /\ UNCHANGED <<hsv, facv, regv, loopv, lockv>>

\* writer.send(frame).await fails: the call returns CannotSend through `?`,
\* dropping its Addr and its receivers; the table entry stays
WriteFail ==
    /\ caller.pc = "write"
    /\ addr' = addr \ {caller.id}
    /\ Return(caller.id, "CannotSend")
    /\ handle' = IF caller.op = "stream"
                 THEN [handle EXCEPT ![caller.id] = "dropped"] ELSE handle
    /\ closed' = IF caller.op = "stream" THEN closed \cup {caller.id} ELSE closed
    /\ UNCHANGED <<nextId, actors, stream_actors, sent>>
    /\ UNCHANGED <<actorv, chan, consumed, cleanup, readerv>>
    /\ UNCHANGED <<hsv, facv, regv, loopv, lockv>>

\* after!: wait for the actor to stop, take the reply from the oneshot,
\* remove the entry from actors and convert the reply
after ==
    /\ caller.pc = "await"
    /\ caller.op \in {"unary", "connect"}
    /\ astate[caller.id] = "stopped"
    /\ slot[caller.id] # <<>>
    /\ actors' = actors \ {caller.id}
    /\ addr' = addr \ {caller.id}
    /\ Return(caller.id, ToUnit(slot[caller.id][1]))
    /\ UNCHANGED <<nextId, stream_actors, sent>>
    /\ UNCHANGED <<actorv, streamv, readerv>>
    /\ UNCHANGED <<hsv, facv, regv, loopv, lockv>>

\* the first reply of a streaming call was an error: remove the entry and
\* return the error
HeaderErr ==
    /\ caller.pc = "await"
    /\ caller.op = "stream"
    /\ error_r[caller.id] \notin {"unset", "None"}
    /\ stream_actors' = stream_actors \ {caller.id}
    /\ addr' = addr \ {caller.id}
    /\ Return(caller.id, error_r[caller.id])
    /\ handle' = [handle EXCEPT ![caller.id] = "dropped"]
    /\ closed' = closed \cup {caller.id}
    /\ UNCHANGED <<nextId, actors, sent>>
    /\ UNCHANGED <<actorv, chan, consumed, cleanup, readerv>>
    /\ UNCHANGED <<hsv, facv, regv, loopv, lockv>>

\* the first reply of a streaming call was not an error: spawn the cleanup
\* task, which takes the Addr, and return the block receiver
HeaderOk ==
    /\ caller.pc = "await"
    /\ caller.op = "stream"
    /\ error_r[caller.id] = "None"
    /\ cleanup' = cleanup \cup {caller.id}
    /\ handle' = [handle EXCEPT ![caller.id] = "held"]
    /\ Return(caller.id, "Ok")
    /\ UNCHANGED <<nextId, actors, stream_actors, addr, sent>>
    /\ UNCHANGED <<actorv, chan, closed, consumed, readerv>>
    /\ UNCHANGED <<hsv, facv, regv, loopv, lockv>>

\* the cleanup task of a stream: after wait_for_stop, remove the entry
Cleanup(i) ==
    /\ i \in cleanup
    /\ astate[i] = "stopped"
    /\ stream_actors' = stream_actors \ {i}
    /\ addr' = addr \ {i}
    /\ cleanup' = cleanup \ {i}
    /\ UNCHANGED <<nextId, caller, actors, ret, connret, sent>>
    /\ UNCHANGED <<actorv, chan, closed, handle, consumed, readerv>>
    /\ UNCHANGED <<hsv, facv, regv, loopv, lockv>>

\* ------------------------------------------------------------- the actors
\* ctx.stop(None): queue a Stop event behind the events already queued, if
\* the mailbox still has a sender
ctx_stop(i, q) == IF i \in addr THEN Append(q, Stop) ELSE q

\* Handler<BrokerMessageXActor> for BrokerMessageActor: resolve the oneshot
\* with the message and stop; a send on a oneshot that was already used or
\* whose receiver is gone fails, and the unwrap ends the actor's task
UnaryHandle(i, m) ==
    IF slot[i] = <<>> /\ ret[i] = "none"
    THEN /\ slot' = [slot EXCEPT ![i] = <<m>>]
         /\ mailbox' = [mailbox EXCEPT ![i] = ctx_stop(i, Tail(mailbox[i]))]
         /\ UNCHANGED astate
    ELSE /\ astate' = [astate EXCEPT ![i] = "stopped"]
         /\ mailbox' = [mailbox EXCEPT ![i] = <<>>]
         /\ UNCHANGED slot

\* a stream actor that reports no error for whatever first response it gets
send_error_none(i, err) ==
    IF i \in error_s
    THEN /\ error_r' = [error_r EXCEPT ![i] = "None"]
         /\ error_s' = error_s \ {i}
    ELSE UNCHANGED <<error_r, error_s>>

\* BrokerMessageStreamActor::send_error: the error oneshot is used once
send_error(i, err) ==
    IF i \in error_s
    THEN /\ error_r' = [error_r EXCEPT ![i] = err]
         /\ error_s' = error_s \ {i}
    ELSE UNCHANGED <<error_r, error_s>>

\* a block channel that takes blocks whether or not its receiver is gone
send_fails_never(i) == FALSE

\* Sender::send on the block channel fails once the channel is closed: its
\* receiver was dropped or the actor closed it
send_fails(i) == i \in closed

\* a block channel that holds one block
channel_of_one(q) == Len(q) >= 1

\* async_channel::unbounded: a send on the block channel never waits for the
\* receiver to take a block
channel_full(q) == FALSE

\* a block channel that hands out the newest block first
partial_lifo(q, b) == <<b>> \o q

\* BrokerMessageStreamActor::partial on an open channel: queue the block
partial(q, b) == Append(q, b)

\* Handler<BrokerMessageXActor> for BrokerMessageStreamActor
StreamHandle(i, m) ==
    LET res == ToBlockOpt(m) IN
    IF res.tag = "Err"
    THEN /\ send_error(i, res.err)
         /\ mailbox' = [mailbox EXCEPT ![i] = ctx_stop(i, Tail(mailbox[i]))]
         /\ closed' = closed \cup {i}
         /\ UNCHANGED chan
    ELSE IF res.block # NoBlock
    THEN /\ send_error(i, "None")
         /\ IF send_fails(i)
            THEN \* partial() returns the error of the send
                 /\ mailbox' = [mailbox EXCEPT ![i] = ctx_stop(i, Tail(mailbox[i]))]
                 /\ UNCHANGED <<chan, closed>>
            ELSE /\ ~channel_full(chan[i])
                 /\ chan' = [chan EXCEPT ![i] = partial(chan[i], res.block)]
                 /\ mailbox' = [mailbox EXCEPT ![i] = Tail(mailbox[i])]
                 /\ UNCHANGED closed
    ELSE /\ send_error(i, "None")
         /\ mailbox' = [mailbox EXCEPT ![i] = ctx_stop(i, Tail(mailbox[i]))]
         /\ closed' = closed \cup {i}
         /\ UNCHANGED chan

\* the actor's task takes the next event of its mailbox: a message is
\* handled, a Stop event ends the task and drops what is still queued
ActorStep(i) ==
    /\ astate[i] = "running"
    /\ mailbox[i] # <<>>
    /\ LET ev == Head(mailbox[i]) IN
       IF ev = Stop
       THEN /\ astate' = [astate EXCEPT ![i] = "stopped"]
            /\ mailbox' = [mailbox EXCEPT ![i] = <<>>]
            /\ UNCHANGED <<slot, error_s, error_r, chan, closed>>
       ELSE IF akind[i] = "unary"
       THEN /\ UnaryHandle(i, ev)
            /\ UNCHANGED <<error_s, error_r, chan, closed>>
       ELSE /\ StreamHandle(i, ev)
            /\ UNCHANGED <<astate, slot>>
    /\ UNCHANGED <<akind, handle, consumed, cleanup>>
    /\ UNCHANGED <<client, readerv>>
    /\ UNCHANGED <<hsv, facv, regv, loopv, lockv>>

\* every Addr of the actor is gone and its mailbox is empty: the task ends
ActorOrphaned(i) ==
    /\ astate[i] = "running"
    /\ mailbox[i] = <<>>
    /\ i \notin addr
    /\ astate' = [astate EXCEPT ![i] = "stopped"]
    /\ UNCHANGED <<akind, mailbox, slot, error_s, error_r>>
    /\ UNCHANGED <<client, streamv, readerv>>
    /\ UNCHANGED <<hsv, facv, regv, loopv, lockv>>

\* ----------------------------------------------------------- the consumer
\* blockstream.next(): the next queued block, or the end of a closed stream
Consume(i) ==
    /\ handle[i] = "held"
    /\ IF chan[i] # <<>>
       THEN /\ consumed' = [consumed EXCEPT ![i] = Append(consumed[i], Head(chan[i]))]
            /\ chan' = [chan EXCEPT ![i] = Tail(chan[i])]
            /\ UNCHANGED handle
       ELSE /\ i \in closed
            /\ handle' = [handle EXCEPT ![i] = "ended"]
            /\ UNCHANGED <<consumed, chan>>
    /\ UNCHANGED <<closed, cleanup>>
    /\ UNCHANGED <<client, actorv, readerv>>
    /\ UNCHANGED <<hsv, facv, regv, loopv, lockv>>

\* the consumer drops the block receiver: the channel closes
DropStream(i) ==
    /\ handle[i] = "held"
    /\ handle' = [handle EXCEPT ![i] = "dropped"]
    /\ closed' = closed \cup {i}
    /\ UNCHANGED <<chan, consumed, cleanup>>
    /\ UNCHANGED <<client, actorv, readerv>>
    /\ UNCHANGED <<hsv, facv, regv, loopv, lockv>>

\* ------------------------------------------------------------- the reader
\* the table in which connection_reader_loop finds the id of a response
Lookup(id) ==
    IF id \in actors THEN "actors"
    ELSE IF id \in stream_actors THEN "stream_actors"
    ELSE "none"

\* an id accessor that confuses the ids of two requests
MessageId_swapped(m) == IF m.id = 2 THEN 1 ELSE IF m.id = 1 THEN 2 ELSE m.id

\* BrokerMessage::id
MessageId(m) == m.id

\* the responses the broker sends: to the id of a unary request a result
\* without block, to the id of a streamed request a block, the terminator or
\* an error, and responses whose id no request carries
Addressed(m) ==
    \/ /\ m.id \in Ids
       /\ akind[m.id] = "unary"
       /\ m.block = NoBlock
       /\ m.result \in {OK} \cup Errors
    \/ /\ m.id \in Ids
       /\ akind[m.id] = "stream"
       /\ m.type = "BrokerOverlayResponse"
       /\ \/ m.block # NoBlock
          \/ m.result \in {EndOfStream, "NotFound"}
    \/ /\ m.id = UnknownId
       /\ m.result = OK

\* connection_reader_loop, one frame: a request is logged, a response is
\* sent to the actor its id names, anything else is skipped.  A send to an
\* actor whose task has ended either is lost (mailbox not yet dropped) or
\* fails, and the expect() ends the reader task
ReadFrame(m) ==
    /\ reader = "running"
    /\ nread < MaxFrames
    /\ is_response(m) => Addressed(m)
    /\ nread' = nread + 1
    /\ requestSeen' = (requestSeen \/ is_request(m))
    /\ eventSeen' = (eventSeen \/ m \in EventFrames)
    /\ IF is_request(m) \/ ~is_response(m)
       THEN UNCHANGED <<reader, log, mailbox>>
       ELSE LET id == MessageId(m) IN
            /\ log' = IF id \in Ids
                      THEN [log EXCEPT ![id] = Append(log[id], [result |-> m.result, block |-> m.block])]
                      ELSE log
            /\ IF Lookup(id) = "none" \/ id \notin addr
               THEN UNCHANGED <<reader, mailbox>>
               ELSE IF astate[id] = "running"
               THEN /\ mailbox' = [mailbox EXCEPT ![id] = Append(mailbox[id], m)]
                    /\ UNCHANGED reader
               ELSE /\ reader' \in {"running", "panicked"}
                    /\ UNCHANGED mailbox
    /\ UNCHANGED <<akind, astate, slot, error_s, error_r>>
    /\ UNCHANGED <<client, streamv>>
    /\ UNCHANGED <<hsv, facv, regv, loopv, lockv>>

\* the frame stream of the link ends: connection_reader_loop returns
LinkLost ==
    /\ reader = "running"
    /\ reader' = "ended"
    /\ UNCHANGED <<log, nread, requestSeen, eventSeen>>
    /\ UNCHANGED <<client, actorv, streamv>>
    /\ UNCHANGED <<hsv, facv, regv, loopv, lockv>>

\* ------------------------------------------------------------- the facade
\* the response the broker's handler writes for a unary request
unary_response(type, id, res) ==
    [type |-> type, id |-> id, result |-> IF res = "Ok" THEN OK ELSE res, block |-> NoBlock]

\* the responses the broker's handler writes for a BlockGet: NotFound, or
\* one response per block followed by the terminator
block_get_responses(id, g) ==
    IF g.res # "Ok"
    THEN <<unary_response("BrokerOverlayResponse", id, g.res)>>
    ELSE [k \in 1..Len(g.blocks) |->
             [type |-> "BrokerOverlayResponse", id |-> id, result |-> OK, block |-> g.blocks[k]]]
         \o <<unary_response("BrokerOverlayResponse", id, EndOfStream)>>

RECURSIVE stream_blocks(_, _)
\* what the stream actor queues in the block channel for the responses it
\* handles, up to the one that closes the channel
stream_blocks(frames, q) ==
    IF frames = <<>> THEN q
    ELSE LET res == ToBlockOpt(Head(frames)) IN
         IF res.tag = "Err" \/ res.block = NoBlock THEN q
         ELSE stream_blocks(Tail(frames), partial(q, res.block))

\* the remote streaming call on the responses to its request: the error of
\* the first response, or the stream of the blocks
remote_stream(frames) ==
    LET first == ToBlockOpt(Head(frames)) IN
    IF first.tag = "Err" THEN RErr(first.err)
    ELSE [ROk EXCEPT !.blocks = stream_blocks(frames, <<>>)]

\* the keys of stream_actors when the remote streaming call returns: the
\* entry inserted before the request is written is removed when the first
\* reply is an error, and is left to the cleanup task otherwise
stream_entries(id, frames) ==
    IF ToBlockOpt(Head(frames)).tag = "Err" THEN {} ELSE {id}

\* BrokerConnectionRemote::process_overlay_request against the broker
remote_request(b, ov, req, arg) ==
    LET e == IF req = "OverlayConnect" THEN engine_overlay_connect(b, ov)
             ELSE IF req = "OverlayJoin" THEN engine_overlay_join(b, ov, arg.secret, arg.peers)
             ELSE IF req = "BlockPut" THEN engine_block_put(b, ov, arg.block)
             ELSE engine_object_del(b, ov, arg.id)
    IN [res |-> ToUnit(unary_response("BrokerOverlayResponse", 1, e.res)), broker |-> e.broker]

\* a local connection that also hands ObjectDel to the broker
local_request_with_del(b, ov, req, arg) ==
    IF req = "OverlayConnect" THEN engine_overlay_connect(b, ov)
    ELSE IF req = "OverlayJoin" THEN engine_overlay_join(b, ov, arg.secret, arg.peers)
    ELSE IF req = "BlockPut" THEN engine_block_put(b, ov, arg.block)
    ELSE IF req = "ObjectDel" THEN engine_object_del(b, ov, arg.id)
    ELSE [res |-> "InvalidState", broker |-> b]

\* BrokerConnectionLocal::process_overlay_request
local_request(b, ov, req, arg) ==
    IF req = "OverlayConnect" THEN engine_overlay_connect(b, ov)
    ELSE IF req = "OverlayJoin" THEN engine_overlay_join(b, ov, arg.secret, arg.peers)
    ELSE IF req = "BlockPut" THEN engine_block_put(b, ov, arg.block)
    ELSE [res |-> "InvalidState", broker |-> b]

\* BrokerConnectionLocal::process_overlay_request_stream_response
local_stream(b, ov, req, id, include_children) ==
    IF req = "BlockGet" THEN engine_block_get(b, ov, id, include_children)
    ELSE [res |-> "InvalidState", blocks |-> <<>>]

\* process_overlay_request of the connection of that side
request(side, b, ov, req, arg) ==
    IF side = "local" THEN local_request(b, ov, req, arg) ELSE remote_request(b, ov, req, arg)

\* the arguments of a request
NoArg == [secret |-> "none", peers |-> "none", block |-> "none", id |-> <<>>]

\* add_user of the connection of that side
add_user(side, b, user_id, admin_user_pk) ==
    LET sig == sign(admin_user_pk, ConnUser, <<"AddUserContentV0", user_id>>)
        e == engine_add_user(b, user_id, ConnUser, sig)
    IN IF side = "local"
       THEN [res |-> RUnit(e.res), broker |-> e.broker]
       ELSE [res |-> RUnit(ToUnit(unary_response("BrokerResponse", 1, e.res))),
             broker |-> e.broker]

\* overlay_connect of the connection of that side: the local connection
\* only computes the overlay id, the remote one sends OverlayConnect and
\* falls back to OverlayJoin
overlay_connect(side, b, repo_link, public) ==
    LET ov == overlay(repo_link, public) IN
    IF side = "local"
    THEN [res |-> [ROk EXCEPT !.overlay = <<ov>>], broker |-> b]
    ELSE LET r1 == remote_request(b, ov, "OverlayConnect", NoArg) IN
         IF ConnectDecision(r1.res) = "join"
         THEN LET r2 == remote_request(r1.broker, ov, "OverlayJoin",
                           [NoArg EXCEPT !.secret = repo_link.secret, !.peers = repo_link.peers])
              IN [res |-> IF r2.res = "Ok" THEN [ROk EXCEPT !.overlay = <<ov>>] ELSE RErr(r2.res),
                  broker |-> r2.broker]
         ELSE IF r1.res = "Ok"
         THEN [res |-> [ROk EXCEPT !.overlay = <<ov>>], broker |-> r1.broker]
         ELSE [res |-> RErr(r1.res), broker |-> r1.broker]

\* OverlayConnectionClient::put_block
put_block(side, b, ov, block) ==
    LET r == request(side, b, ov, "BlockPut", [NoArg EXCEPT !.block = block]) IN
    [res |-> IF r.res = "Ok" THEN [ROk EXCEPT !.id = <<block_id(block)>>] ELSE RErr(r.res),
     broker |-> r.broker]

RECURSIVE put_blocks_nodedup(_, _, _, _, _, _)
\* a put_object that sends every block of the list
put_blocks_nodedup(side, b, ov, blocks, deduplicated, put) ==
    IF blocks = <<>>
    THEN [res |-> [ROk EXCEPT !.id = <<ObjectId>>], broker |-> b, sent |-> put]
    ELSE LET r == put_block(side, b, ov, Head(blocks)) IN
         IF r.res.tag = "Err"
         THEN [res |-> r.res, broker |-> r.broker, sent |-> Append(put, Head(blocks))]
         ELSE put_blocks_nodedup(side, r.broker, ov, Tail(blocks), deduplicated,
                                 Append(put, Head(blocks)))

RECURSIVE put_blocks_continue(_, _, _, _, _, _)
\* a put_object that goes on after a put_block that failed
put_blocks_continue(side, b, ov, blocks, deduplicated, put) ==
    IF blocks = <<>>
    THEN [res |-> [ROk EXCEPT !.id = <<ObjectId>>], broker |-> b, sent |-> put]
    ELSE LET id == block_id(Head(blocks)) IN
         IF id \in deduplicated
         THEN put_blocks_continue(side, b, ov, Tail(blocks), deduplicated, put)
         ELSE LET r == put_block(side, b, ov, Head(blocks)) IN
              put_blocks_continue(side, r.broker, ov, Tail(blocks), deduplicated \cup {id},
                                  Append(put, Head(blocks)))

RECURSIVE put_blocks(_, _, _, _, _, _)
\* OverlayConnectionClient::put_object: put_block for each block of the
\* object whose id is not in deduplicated, stopping at the first error;
\* put is the blocks put_block was called with
put_blocks(side, b, ov, blocks, deduplicated, put) ==
    IF blocks = <<>>
    THEN [res |-> [ROk EXCEPT !.id = <<ObjectId>>], broker |-> b, sent |-> put]
    ELSE LET id == block_id(Head(blocks)) IN
         IF id \in deduplicated
         THEN put_blocks(side, b, ov, Tail(blocks), deduplicated, put)
         ELSE LET r == put_block(side, b, ov, Head(blocks)) IN
              IF r.res.tag = "Err"
              THEN [res |-> r.res, broker |-> r.broker, sent |-> Append(put, Head(blocks))]
              ELSE put_blocks(side, r.broker, ov, Tail(blocks), deduplicated \cup {id},
                              Append(put, Head(blocks)))

\* the responses the remote broker writes for a BlockGet
get_block_frames(b, ov, id, include_children) ==
    block_get_responses(1, engine_block_get(b, ov, id, include_children))

\* OverlayConnectionClient::get_block
get_block(side, b, ov, id, include_children) ==
    IF side = "local"
    THEN LET g == local_stream(b, ov, "BlockGet", id, include_children) IN
         IF g.res = "Ok" THEN [ROk EXCEPT !.blocks = g.blocks] ELSE RErr(g.res)
    ELSE remote_stream(get_block_frames(b, ov, id, include_children))

\* Object::from_hashmap: the object is assembled when the root and all its
\* descendants are among the blocks
from_hashmap(id, blocks) ==
    LET have == {block_id(blocks[k]) : k \in 1..Len(blocks)}
        need == {id} \cup UNION {{children(blocks[k])[j] : j \in 1..Len(children(blocks[k]))}
                                  : k \in 1..Len(blocks)}
    IN need \subseteq have

\* OverlayConnectionClient::get_object
get_object(side, b, ov, id) ==
    LET s == get_block(side, b, ov, id, TRUE) IN
    IF s.tag = "Err" THEN s
    ELSE IF from_hashmap(id, s.blocks) THEN s
    ELSE RErr("MissingBlocks")

\* deleting an object: an ObjectDel request through process_overlay_request
object_del(side, b, ov, id) ==
    LET r == request(side, b, ov, "ObjectDel", [NoArg EXCEPT !.id = id]) IN
    [res |-> RUnit(r.res), broker |-> r.broker]

\* the arguments of a facade operation
NoOpArg == [user |-> "none", public |-> FALSE, block |-> "none", id |-> <<>>,
            include_children |-> FALSE, refused |-> "none", req |-> "none",
            streamed |-> FALSE]

\* the operation ran on both connections: record results and registries
Record(op, arg, out, frames) ==
    /\ Len(hist) < MaxOps
    /\ broker' = [side \in Sides |-> out[side].broker]
    /\ hist' = Append(hist, [op |-> op, arg |-> arg,
                             res |-> [side \in Sides |-> out[side].res],
                             pre |-> broker,
                             post |-> [side \in Sides |-> out[side].broker],
                             frames |-> frames,
                             puts |-> [side \in Sides |->
                                          IF op = "put_object" THEN out[side].sent ELSE <<>>],
                             pending |-> IF frames = <<>> THEN {}
                                         ELSE stream_entries(1, frames)])
    /\ UNCHANGED <<muxv, hsv, regv, loopv, lockv>>

\* add_user(user_id, admin_user_pk) on both connections
AddUser(u) ==
    /\ Record("add_user", [NoOpArg EXCEPT !.user = u],
              [side \in Sides |-> add_user(side, broker[side], u, PrivKeyOf(ConnUser))], <<>>)
    /\ UNCHANGED oc

\* overlay_connect(repo_link, public) on both connections
OverlayConnect(public) ==
    LET out == [side \in Sides |-> overlay_connect(side, broker[side], RepoLink, public)] IN
    /\ Record("overlay_connect", [NoOpArg EXCEPT !.public = public], out, <<>>)
    /\ oc' = [side \in Sides |->
                 IF out[side].res.tag = "Ok" THEN out[side].res.overlay ELSE oc[side]]

\* both connections hold an OverlayConnectionClient
Connected == \A side \in Sides : oc[side] # <<>>

\* put_block(block) on both overlay connections
PutBlock(block) ==
    /\ Connected
    /\ Record("put_block", [NoOpArg EXCEPT !.block = block],
              [side \in Sides |-> put_block(side, broker[side], oc[side][1], block)], <<>>)
    /\ UNCHANGED oc

\* put_object(content, ..) on both overlay connections, while the store of
\* the broker refuses the write of one block or of none
PutObject(refused) ==
    /\ Connected
    /\ Record("put_object", [NoOpArg EXCEPT !.id = ObjectId, !.refused = refused],
              [side \in Sides |->
                  LET r == put_blocks(side, [broker[side] EXCEPT !.refuses = refused],
                                      oc[side][1], ObjectBlocks, {}, <<>>)
                  IN  [r EXCEPT !.broker.refuses = "none"]],
              <<>>)
    /\ UNCHANGED oc

\* get_block(id, include_children, None) on both overlay connections
GetBlock(block, include_children) ==
    /\ Connected
    /\ Record("get_block",
              [NoOpArg EXCEPT !.id = block_id(block), !.include_children = include_children],
              [side \in Sides |->
                  [res |-> get_block(side, broker[side], oc[side][1], block_id(block), include_children),
                   broker |-> broker[side]]],
              get_block_frames(broker["remote"], oc["remote"][1], block_id(block), include_children))
    /\ UNCHANGED oc

\* get_object(id, None) on both overlay connections
GetObject ==
    /\ Connected
    /\ Record("get_object", [NoOpArg EXCEPT !.id = ObjectId],
              [side \in Sides |->
                  [res |-> get_object(side, broker[side], oc[side][1], ObjectId),
                   broker |-> broker[side]]],
              get_block_frames(broker["remote"], oc["remote"][1], ObjectId, TRUE))
    /\ UNCHANGED oc

\* deleting the object on both overlay connections
ObjectDel ==
    /\ Connected
    /\ Record("object_del", [NoOpArg EXCEPT !.id = ObjectId],
              [side \in Sides |-> object_del(side, broker[side], oc[side][1], ObjectId)], <<>>)
    /\ UNCHANGED oc

\* the request variants handed to the local connection directly
LocalVariants == {"BlockGet", "BlockPut", "ObjectDel", "BranchSyncReq", "TopicSub"}

\* the result of a call that was not made on a connection
NotIssued == [ROk EXCEPT !.tag = "none"]

\* the variants the match of the local connection hands to the broker
Accepted(streamed) ==
    IF streamed THEN {"BlockGet"} ELSE {"OverlayConnect", "OverlayJoin", "BlockPut"}

\* process_overlay_request or process_overlay_request_stream_response of
\* the local connection, called with a request for the root block of a
\* variant that no operation above issues
LocalRequest(req, streamed) ==
    /\ Connected
    /\ req \notin Accepted(streamed)
    /\ Record("local_request",
              [NoOpArg EXCEPT !.req = req, !.streamed = streamed, !.id = ObjectId,
                              !.block = "root"],
              [side \in Sides |->
                  IF side = "remote" THEN [res |-> NotIssued, broker |-> broker[side]]
                  ELSE IF streamed
                  THEN LET g == local_stream(broker[side], oc[side][1], req, ObjectId, FALSE) IN
                       [res |-> IF g.res = "Ok" THEN [ROk EXCEPT !.blocks = g.blocks]
                                ELSE RErr(g.res),
                        broker |-> broker[side]]
                  ELSE LET r == local_request(broker[side], oc[side][1], req,
                                              [NoArg EXCEPT !.block = "root", !.id = ObjectId]) IN
                       [res |-> RUnit(r.res), broker |-> r.broker]],
              <<>>)
    /\ UNCHANGED oc

FacadeNext ==
    \/ \E u \in Users : AddUser(u)
    \/ \E public \in BOOLEAN : OverlayConnect(public)
    \/ \E block \in TreeBlocks : PutBlock(block)
    \/ \E refused \in {"none"} \cup TreeBlocks : PutObject(refused)
    \/ \E block \in TreeBlocks, include_children \in BOOLEAN : GetBlock(block, include_children)
    \/ GetObject
    \/ ObjectDel
    \/ \E req \in LocalVariants, streamed \in BOOLEAN : LocalRequest(req, streamed)

\* --------------------------------------------------------- the handshake
\* the user keys, one of them no Ed25519 public key, and the client keys
\* open_broker_connection is called with
HsUsers == {"u1", "u9", "invalid"}
HsClients == {"c1", "c9"}

\* the users the broker knows and the clients it knows of each
KnownUsers == {"u1"}
KnownClients(user) == IF user = "u1" THEN {"c1"} ELSE {}

\* the nonces a ServerHello may carry; the broker draws a fresh one for
\* every transport
Nonces == {<<"nonce", t>> : t \in Sessions}
fresh_nonce(t) == <<"nonce", t>>

\* the calls of open_broker_connection: who is at the other end of the
\* transport, and the arguments
Configs ==
    [peer : {"broker", "other"}, user : HsUsers,
     user_pk : {PrivKeyOf(u) : u \in {"u1", "u9"}}, client : HsClients]

\* the errors with a code, in the order of their codes from 1
ProtocolErrorCodes == <<"InvalidState", "SignatureError">>

\* ProtocolError::try_from(u16): the error of the code, if there is one
try_from(code) ==
    IF code \in 1..Len(ProtocolErrorCodes) THEN <<ProtocolErrorCodes[code]>> ELSE <<>>

\* the codes of the errors
ErrorCodes == {code \in 1..MaxCode : try_from(code) # <<>>}

\* the handshake messages and a BrokerMessage, as written to a transport
NoContent == [user |-> "none", client |-> "none", nonce |-> <<>>]
NoSig == [sk |-> <<>>, pk |-> "none", content |-> <<>>]
HsFrame(type) ==
    [type |-> type, nonce |-> <<>>, content |-> NoContent, sig |-> NoSig, result |-> 0]
StartProtocolAuth == HsFrame("Auth")
ServerHello(n) == [HsFrame("ServerHello") EXCEPT !.nonce = n]
ClientAuth(content, sig) == [HsFrame("ClientAuth") EXCEPT !.content = content, !.sig = sig]
AuthResult(result) == [HsFrame("AuthResult") EXCEPT !.result = result]
BrokerMessage == HsFrame("BrokerMessage")

\* a client that signs the nonce of the first transport whatever the
\* ServerHello carries
nonce_first(server_hello) == <<"nonce", 1>>

\* ServerHello::nonce
nonce(server_hello) == server_hello.nonce

\* serde_bare::to_vec of a ClientAuthContentV0: the fields in their order
to_vec(content) == <<content.user, content.client, content.nonce>>

\* Keypair::from_bytes in sign fails on bytes that are no public key
sign_fails(author_pubkey) == author_pubkey = "invalid"

\* the ClientAuth open_broker_connection builds from the ServerHello
client_auth(cfg, server_hello) ==
    LET content == [user |-> cfg.user, client |-> cfg.client, nonce |-> nonce(server_hello)]
    IN  ClientAuth(content, sign(cfg.user_pk, cfg.user, to_vec(content)))

\* an open_broker_connection that hands out the connection although it
\* returns an error
Returned_connected(t, r) ==
    /\ hpc' = [hpc EXCEPT ![t] = "ready"]
    /\ hret' = [hret EXCEPT ![t] = r]

\* what the transport returns once open_broker_connection has returned
Returned(t, r) ==
    /\ hpc' = [hpc EXCEPT ![t] = "returned"]
    /\ hret' = [hret EXCEPT ![t] = r]

\* open_broker_connection is called and writes StartProtocol::Auth, or
\* fails to
Open(t, cfg, ok) ==
    /\ hpc[t] = "closed"
    /\ hcfg' = [hcfg EXCEPT ![t] = cfg]
    /\ IF ok
       THEN /\ c2s' = [c2s EXCEPT ![t] = Append(@, StartProtocolAuth)]
            /\ hlog' = [hlog EXCEPT ![t] = Append(@, <<"send", "Auth">>)]
            /\ hpc' = [hpc EXCEPT ![t] = "hello_sent"]
            /\ UNCHANGED hret
       ELSE /\ Returned(t, "CannotSend")
            /\ UNCHANGED <<c2s, hlog>>
    /\ UNCHANGED <<s2c, spc, issued, sproc>>
    /\ UNCHANGED <<muxv, facv, regv, loopv, lockv>>

\* the transport ends while open_broker_connection waits for an answer
StreamEnd(t) ==
    /\ hpc[t] \in {"hello_sent", "auth_sent"}
    /\ s2c[t] = <<>>
    /\ Returned(t, "InvalidState")
    /\ UNCHANGED <<hcfg, c2s, s2c, spc, issued, sproc, hlog>>
    /\ UNCHANGED <<muxv, facv, regv, loopv, lockv>>

\* open_broker_connection reads the ServerHello, signs the content and
\* writes the ClientAuth
RecvServerHello(t, ok) ==
    /\ hpc[t] = "hello_sent"
    /\ s2c[t] # <<>>
    /\ Head(s2c[t]).type = "ServerHello"
    /\ s2c' = [s2c EXCEPT ![t] = Tail(@)]
    /\ IF sign_fails(hcfg[t].user)
       THEN /\ Returned(t, "SignatureError")
            /\ hlog' = [hlog EXCEPT ![t] = Append(@, <<"recv", "ServerHello">>)]
            /\ UNCHANGED c2s
       ELSE IF ok
       THEN /\ c2s' = [c2s EXCEPT ![t] = Append(@, client_auth(hcfg[t], Head(s2c[t])))]
            /\ hlog' = [hlog EXCEPT ![t] =
                   @ \o << <<"recv", "ServerHello">>, <<"send", "ClientAuth">> >>]
            /\ hpc' = [hpc EXCEPT ![t] = "auth_sent"]
            /\ UNCHANGED hret
       ELSE /\ Returned(t, "CannotSend")
            /\ hlog' = [hlog EXCEPT ![t] = Append(@, <<"recv", "ServerHello">>)]
            /\ UNCHANGED c2s
    /\ UNCHANGED <<hcfg, spc, issued, sproc>>
    /\ UNCHANGED <<muxv, facv, regv, loopv, lockv>>

\* open_broker_connection reads the AuthResult: on 0 it opens the
\* connection, which spawns the reader task, on the code of an error it
\* returns the error, on any other code the unwrap panics
RecvAuthResult(t) ==
    /\ hpc[t] = "auth_sent"
    /\ s2c[t] # <<>>
    /\ Head(s2c[t]).type = "AuthResult"
    /\ LET result == Head(s2c[t]).result
       IN  /\ hlog' = [hlog EXCEPT ![t] = Append(@, <<"recv", "AuthResult", result>>)]
           /\ IF result = 0
              THEN /\ hpc' = [hpc EXCEPT ![t] = "ready"]
                   /\ hret' = [hret EXCEPT ![t] = "Ok"]
              ELSE IF try_from(result) # <<>>
              THEN Returned(t, try_from(result)[1])
              ELSE /\ hpc' = [hpc EXCEPT ![t] = "panicked"]
                   /\ hret' = [hret EXCEPT ![t] = "panic"]
    /\ s2c' = [s2c EXCEPT ![t] = Tail(@)]
    /\ UNCHANGED <<hcfg, c2s, spc, issued, sproc>>
    /\ UNCHANGED <<muxv, facv, regv, loopv, lockv>>

\* the BrokerMessages a transport has carried
Requests(t) == Len(SelectSeq(c2s[t], LAMBDA f : f.type = "BrokerMessage"))

\* the connection open_broker_connection returned writes a request
SendRequest(t) ==
    /\ hpc[t] = "ready"
    /\ Requests(t) < MaxHsRequests
    /\ c2s' = [c2s EXCEPT ![t] = Append(@, BrokerMessage)]
    /\ hlog' = [hlog EXCEPT ![t] = Append(@, <<"send", "BrokerMessage">>)]
    /\ UNCHANGED <<hcfg, hpc, hret, s2c, spc, issued, sproc>>
    /\ UNCHANGED <<muxv, facv, regv, loopv, lockv>>

\* a peer that is no broker answers the hello with some nonce
PeerHello(t, n) ==
    /\ hcfg[t].peer = "other"
    /\ hpc[t] = "hello_sent"
    /\ issued[t] = <<>>
    /\ issued' = [issued EXCEPT ![t] = n]
    /\ s2c' = [s2c EXCEPT ![t] = Append(@, ServerHello(n))]
    /\ UNCHANGED <<hcfg, hpc, hret, c2s, spc, sproc, hlog>>
    /\ UNCHANGED <<muxv, facv, regv, loopv, lockv>>

\* a peer that is no broker answers the ClientAuth with some code
PeerResult(t, code) ==
    /\ hcfg[t].peer = "other"
    /\ hpc[t] = "auth_sent"
    /\ s2c[t] = <<>>
    /\ s2c' = [s2c EXCEPT ![t] = Append(@, AuthResult(code))]
    /\ UNCHANGED <<hcfg, hpc, hret, c2s, spc, issued, sproc, hlog>>
    /\ UNCHANGED <<muxv, facv, regv, loopv, lockv>>

\* a program other than this client opens a transport to the broker
RawOpen(t) ==
    /\ hpc[t] = "closed"
    /\ hcfg' = [hcfg EXCEPT ![t] = [NoConfig EXCEPT !.peer = "broker"]]
    /\ hpc' = [hpc EXCEPT ![t] = "raw"]
    /\ c2s' = [c2s EXCEPT ![t] = Append(@, StartProtocolAuth)]
    /\ UNCHANGED <<hret, s2c, spc, issued, sproc, hlog>>
    /\ UNCHANGED <<muxv, facv, regv, loopv, lockv>>

\* it answers the challenge with a ClientAuth it saw on another transport
Replay(t, u) ==
    /\ hpc[t] = "raw"
    /\ Len(c2s[t]) = 1
    /\ u # t
    /\ Len(c2s[u]) >= 2
    /\ c2s[u][2].type = "ClientAuth"
    /\ c2s' = [c2s EXCEPT ![t] = Append(@, c2s[u][2])]
    /\ UNCHANGED <<hcfg, hpc, hret, s2c, spc, issued, sproc, hlog>>
    /\ UNCHANGED <<muxv, facv, regv, loopv, lockv>>

\* and writes a request without waiting for the result
RawRequest(t) ==
    /\ hpc[t] = "raw"
    /\ Len(c2s[t]) = 2
    /\ c2s' = [c2s EXCEPT ![t] = Append(@, BrokerMessage)]
    /\ UNCHANGED <<hcfg, hpc, hret, s2c, spc, issued, sproc, hlog>>
    /\ UNCHANGED <<muxv, facv, regv, loopv, lockv>>

\* a broker that accepts any ClientAuth whose signature verifies, whatever
\* nonce it signs
authenticated_any_nonce(auth, n) ==
    /\ verify(to_vec(auth.content), auth.sig, auth.content.user)
    /\ auth.content.user \in KnownUsers
    /\ auth.content.client \in KnownClients(auth.content.user)

\* the broker's verification of a ClientAuth against the nonce it issued
authenticated(auth, n) ==
    /\ auth.content.nonce = n
    /\ verify(to_vec(auth.content), auth.sig, auth.content.user)
    /\ auth.content.user \in KnownUsers
    /\ auth.content.client \in KnownClients(auth.content.user)

\* the broker's handler reads the hello and issues its nonce
ServerHelloStep(t) ==
    /\ hcfg[t].peer = "broker"
    /\ spc[t].pc = "closed"
    /\ Len(c2s[t]) >= 1
    /\ c2s[t][1].type = "Auth"
    /\ issued' = [issued EXCEPT ![t] = fresh_nonce(t)]
    /\ s2c' = [s2c EXCEPT ![t] = Append(@, ServerHello(fresh_nonce(t)))]
    /\ spc' = [spc EXCEPT ![t] = [pc |-> "challenged", read |-> 1, result |-> 0]]
    /\ UNCHANGED <<hcfg, hpc, hret, c2s, sproc, hlog>>
    /\ UNCHANGED <<muxv, facv, regv, loopv, lockv>>

\* the broker's handler reads the ClientAuth and answers with 0 or with the
\* code of an error
ServerAuthStep(t, code) ==
    /\ spc[t].pc = "challenged"
    /\ Len(c2s[t]) >= 2
    /\ c2s[t][2].type = "ClientAuth"
    /\ IF authenticated(c2s[t][2], issued[t])
       THEN /\ s2c' = [s2c EXCEPT ![t] = Append(@, AuthResult(0))]
            /\ spc' = [spc EXCEPT ![t] = [pc |-> "authenticated", read |-> 2, result |-> 0]]
       ELSE /\ s2c' = [s2c EXCEPT ![t] = Append(@, AuthResult(code))]
            /\ spc' = [spc EXCEPT ![t] = [pc |-> "rejected", read |-> 2, result |-> code]]
    /\ UNCHANGED <<hcfg, hpc, hret, c2s, issued, sproc, hlog>>
    /\ UNCHANGED <<muxv, facv, regv, loopv, lockv>>

\* the broker's handler reads the next frame of the transport: a request
\* of an authenticated transport is processed, any other is discarded
ServerProcess(t) ==
    /\ spc[t].pc \in {"authenticated", "rejected"}
    /\ Len(c2s[t]) > spc[t].read
    /\ spc' = [spc EXCEPT ![t].read = @ + 1]
    /\ sproc' = [sproc EXCEPT ![t] =
           IF spc[t].pc = "authenticated" /\ c2s[t][spc[t].read + 1].type = "BrokerMessage"
           THEN @ + 1 ELSE @]
    /\ UNCHANGED <<hcfg, hpc, hret, c2s, s2c, issued, hlog>>
    /\ UNCHANGED <<muxv, facv, regv, loopv, lockv>>

HandshakeNext ==
    \/ \E t \in Sessions, cfg \in Configs, ok \in BOOLEAN : Open(t, cfg, ok)
    \/ \E t \in Sessions : StreamEnd(t)
    \/ \E t \in Sessions, ok \in BOOLEAN : RecvServerHello(t, ok)
    \/ \E t \in Sessions : RecvAuthResult(t)
    \/ \E t \in Sessions : SendRequest(t)
    \/ \E t \in Sessions, n \in Nonces : PeerHello(t, n)
    \/ \E t \in Sessions, code \in 0..MaxCode : PeerResult(t, code)
    \/ \E t \in Sessions : RawOpen(t)
    \/ \E t, u \in Sessions : Replay(t, u)
    \/ \E t \in Sessions : RawRequest(t)
    \/ \E t \in Sessions : ServerHelloStep(t)
    \/ \E t \in Sessions, code \in ErrorCodes : ServerAuthStep(t, code)
    \/ \E t \in Sessions : ServerProcess(t)

\* ------------------------------------------------- the overlay registry
\* the error of a store whose write failed, which the ? operator returns
StoreError == "StoreError"

\* the values stored under a key and suffix
Stored(s, id, prop) == {v \in PropValues(prop) : s[id][prop][v] > 0}

\* BrokerStore::get: a value of the key, or NotFound
store_get(s, id, prop) ==
    IF Stored(s, id, prop) = {} THEN "NotFound" ELSE "Ok"

\* BrokerStore::put: the value is stored under the key, once
store_put(s, id, prop, v) == [s EXCEPT ![id][prop][v] = 1]

\* BrokerStore::replace: the value becomes the only one of the key
store_replace(s, id, prop, v) ==
    [s EXCEPT ![id][prop] = [w \in PropValues(prop) |-> IF w = v THEN 1 ELSE 0]]

\* BrokerStore::del_property_value: one copy of the value is removed
store_del_property_value(s, id, prop, v) ==
    [res |-> IF s[id][prop][v] > 0 THEN "Ok" ELSE "NotFound",
     store |-> [s EXCEPT ![id][prop][v] = IF @ > 0 THEN @ - 1 ELSE 0]]

\* BrokerStore::has_property_value
store_has_property_value(s, id, prop, v) ==
    IF s[id][prop][v] > 0 THEN "Ok" ELSE "NotFound"

\* BrokerStore::del_all: the suffixes are deleted one after the other; when
\* the delete of suffix number fail fails, those before it are gone and
\* the others stay (fail = 0: none fails)
store_del_all(s, id, suffixes, fail) ==
    LET last == IF fail = 0 THEN Len(suffixes) ELSE fail - 1 IN
    [res |-> IF fail = 0 THEN "Ok" ELSE StoreError,
     store |-> [s EXCEPT ![id] = [prop \in DOMAIN @ |->
                   IF \E k \in 1..last : suffixes[k] = prop
                   THEN [v \in PropValues(prop) |-> 0] ELSE @[prop]]]]

\* an overlay that exists when its metadata is stored
exists_by_meta(s, id) == store_get(s, id, META) = "Ok"

\* Overlay::exists: the get of the secret succeeds
overlay_exists(s, id) == store_get(s, id, SUFFIX_FOR_EXIST_CHECK) = "Ok"

\* Overlay::open
overlay_open(s, id) == IF ~overlay_exists(s, id) THEN "NotFound" ELSE "Ok"

\* Overlay::create: the secret, the repo if there is one, and the metadata
\* are put one after the other; when put number fail fails (1 the secret,
\* 2 the repo, 3 the metadata; 0: none) create returns its error at once
overlay_create(s, id, secret, repo, now, fail) ==
    LET meta == [users |-> 1, last_used |-> now]
        s1 == store_put(s, id, SECRET, secret)
        s2 == IF repo # <<>> THEN store_put(s1, id, REPO, repo[1]) ELSE s1
        s3 == store_put(s2, id, META, meta_to_vec(meta))
    IN  IF overlay_exists(s, id) THEN [res |-> "BackendError", store |-> s]
        ELSE IF fail = 1 THEN [res |-> StoreError, store |-> s]
        ELSE IF fail = 2 /\ repo # <<>> THEN [res |-> StoreError, store |-> s1]
        ELSE IF fail = 3 THEN [res |-> StoreError, store |-> s2]
        ELSE [res |-> "Ok", store |-> s3]

\* an add that puts the member whether or not the overlay exists
add_member_unchecked(s, id, prop, v, ok) ==
    IF ~ok THEN [res |-> StoreError, store |-> s]
    ELSE [res |-> "Ok", store |-> store_put(s, id, prop, v)]

\* Overlay::add_peer and Overlay::add_topic: put the member of an overlay
\* that exists
add_member(s, id, prop, v, ok) ==
    IF ~overlay_exists(s, id) THEN [res |-> "BackendError", store |-> s]
    ELSE IF ~ok THEN [res |-> StoreError, store |-> s]
    ELSE [res |-> "Ok", store |-> store_put(s, id, prop, v)]

\* a remove that deletes nothing
remove_member_kept(s, id, prop, v) == [res |-> "Ok", store |-> s]

\* Overlay::remove_peer and Overlay::remove_topic
remove_member(s, id, prop, v) == store_del_property_value(s, id, prop, v)

\* Overlay::has_peer and Overlay::has_topic
has_member(s, id, prop, v) == store_has_property_value(s, id, prop, v)

\* Overlay::set_metadata
set_metadata(s, id, meta) ==
    IF ~overlay_exists(s, id) THEN [res |-> "BackendError", store |-> s]
    ELSE [res |-> "Ok", store |-> store_replace(s, id, META, meta_to_vec(meta))]

\* Overlay::del
overlay_del(s, id, fail) == store_del_all(s, id, ALL_PROPERTIES, fail)

\* an operation ran: the store it leaves and what it was
Ran(op, id, prop, out, added) ==
    /\ rlast.n < MaxRegOps
    /\ kv' = out.store
    /\ rlast' = [op |-> op, id |-> id, prop |-> prop, res |-> out.res,
                 added |-> added,
                 had |-> {q \in DOMAIN kv[id] : Stored(kv, id, q) # {}},
                 n |-> rlast.n + 1]
    /\ UNCHANGED <<muxv, hsv, facv, loopv, lockv>>

\* Overlay::create(id, secret, repo, store)
OverlayCreate(id, secret, repo, now, fail) ==
    /\ Ran("create", id, "none", overlay_create(kv, id, secret, repo, now, fail), 0)
    /\ UNCHANGED rmem

\* Overlay::open(id, store)
OverlayOpen(id) ==
    /\ Ran("open", id, "none", [res |-> overlay_open(kv, id), store |-> kv], 0)
    /\ UNCHANGED rmem

\* add_peer(peer) or add_topic(topic) on a handle of the overlay
AddMember(id, prop, v, ok) ==
    LET out == add_member(kv, id, prop, v, ok) IN
    /\ Ran("add", id, prop, out, rmem[id][prop][v])
    /\ rmem' = IF out.res = "Ok"
               THEN [rmem EXCEPT ![id][prop][v] = IF @ < MaxCopies THEN @ + 1 ELSE @]
               ELSE rmem

\* remove_peer(peer) or remove_topic(topic) on a handle of the overlay
RemoveMember(id, prop, v) ==
    /\ Ran("remove", id, prop, remove_member(kv, id, prop, v), rmem[id][prop][v])
    /\ rmem' = [rmem EXCEPT ![id][prop][v] = 0]

\* has_peer(peer) or has_topic(topic) on a handle of the overlay
HasMember(id, prop, v) ==
    /\ Ran("has", id, prop, [res |-> has_member(kv, id, prop, v), store |-> kv],
           rmem[id][prop][v])
    /\ UNCHANGED rmem

\* set_metadata(meta) on a handle of the overlay
SetMetadata(id, now) ==
    /\ Ran("set_metadata", id, META, set_metadata(kv, id, [users |-> 1, last_used |-> now]), 0)
    /\ UNCHANGED rmem

\* del() on a handle of the overlay
OverlayDel(id, fail) ==
    LET out == overlay_del(kv, id, fail) IN
    /\ Ran("del", id, "none", out, 0)
    /\ rmem' = [rmem EXCEPT ![id] = [prop \in DOMAIN @ |->
                   IF Stored(out.store, id, prop) = {}
                   THEN [v \in PropValues(prop) |-> 0] ELSE @[prop]]]

RegistryNext ==
    \/ \E id \in Overlays, secret \in Secrets, repo \in {<<>>} \cup {<<r>> : r \in Repos},
          now \in Timestamps, fail \in 0..3 : OverlayCreate(id, secret, repo, now, fail)
    \/ \E id \in Overlays : OverlayOpen(id)
    \/ \E id \in Overlays, prop \in {PEER, TOPIC} : \E v \in PropValues(prop), ok \in BOOLEAN :
          AddMember(id, prop, v, ok)
    \/ \E id \in Overlays, prop \in {PEER, TOPIC} : \E v \in PropValues(prop) :
          RemoveMember(id, prop, v)
    \/ \E id \in Overlays, prop \in {PEER, TOPIC} : \E v \in PropValues(prop) :
          HasMember(id, prop, v)
    \/ \E id \in Overlays, now \in Timestamps : SetMetadata(id, now)
    \/ \E id \in Overlays, fail \in 0..Len(ALL_PROPERTIES) : OverlayDel(id, fail)

\* ----------------------------------------- the broker's connection loop
\* ProtocolHandler::handle_incoming: bytes that decode to no message give
\* an error; a ClientAuth gives the AuthResult and its code as the error
\* code of the connection; a request gives one response that carries its
\* result code and no error code; a streamed request that was found gives
\* its first response and a future that queues the remaining frames and
\* then yields 0
handle_incoming(frame, id) ==
    [id |-> id, kind |-> frame.kind,
     reply |-> IF frame.kind = "undecodable" THEN "Err" ELSE "Ok",
     code |-> frame.code,
     errcode |-> IF frame.kind = "auth" THEN <<frame.code>>
                 ELSE IF frame.stream /\ frame.code = 0 THEN <<0>>
                 ELSE <<>>,
     frames |-> IF frame.stream /\ frame.code = 0 THEN <<"block", "end">> ELSE <<>>]

\* a frame on the socket: the reply of handle_incoming, an async frame, or
\* a Close message
WsFrame(id, kind, code) == [id |-> id, kind |-> kind, code |-> code]
Close == WsFrame(0, "close", 0)

\* a Close message was written: the sink is closed
Closed == \E k \in 1..Len(ws) : ws[k] = Close

\* the future replies.1 runs while the loop task awaits it
producer_runs(pc) == pc = "errcode"

\* a loop task that ends the connection on the result code of a reply
leaves_loop_on_code(r) == r.code > 0

\* match replies.1.await: Some(errcode) with errcode > 0 ends the connection
leaves_loop(r) == r.errcode # <<>> /\ r.errcode[1] > 0

\* a loop task that awaits replies.1 before it writes the reply
loop_order_errcode_first(pc) ==
    IF pc = "read" THEN "errcode" ELSE IF pc = "errcode" THEN "reply" ELSE "read"

\* the loop task on one binary message: handle_incoming, then the reply is
\* written, then replies.1 is awaited, then the next message is read
loop_order(pc) ==
    IF pc = "read" THEN "reply" ELSE IF pc = "reply" THEN "errcode" ELSE "read"

\* the loop task reads a binary message and awaits handle_incoming; an
\* error of the handler leaves the loop
LoopRead(frame) ==
    /\ lpc = "read"
    /\ nmsg < MaxLoopReq
    /\ LET r == handle_incoming(frame, nmsg + 1) IN
       /\ nmsg' = nmsg + 1
       /\ replies' = r
       /\ producing' = [producing EXCEPT ![r.id] = r.frames]
       /\ IF r.reply = "Err"
          THEN lpc' = "closing" /\ lwhy' = "ProtocolError"
          ELSE lpc' = loop_order("read") /\ UNCHANGED lwhy
    /\ UNCHANGED <<receiver, atask, ws>>
    /\ UNCHANGED <<muxv, hsv, facv, regv, lockv>>

\* the client closes, or the transport fails or ends: the loop is left
LoopGone ==
    /\ lpc = "read"
    /\ lpc' = "closing"
    /\ lwhy' = "Close"
    /\ UNCHANGED <<nmsg, replies, producing, receiver, atask, ws>>
    /\ UNCHANGED <<muxv, hsv, facv, regv, lockv>>

\* the loop task locks the sink and writes the reply; a failed send leaves
\* the loop
LoopReply(ok) ==
    /\ lpc = "reply"
    /\ IF ok /\ ~Closed
       THEN /\ ws' = Append(ws, WsFrame(replies.id, "reply", replies.code))
            /\ lpc' = loop_order("reply")
            /\ UNCHANGED lwhy
       ELSE /\ lpc' = "closing"
            /\ lwhy' = "SendError"
            /\ UNCHANGED ws
    /\ UNCHANGED <<nmsg, replies, producing, receiver, atask>>
    /\ UNCHANGED <<muxv, hsv, facv, regv, lockv>>

\* the loop task has awaited replies.1: an error code above 0 leaves the
\* loop
LoopErrcode ==
    /\ lpc = "errcode"
    /\ producing[replies.id] = <<>>
    /\ IF leaves_loop(replies)
       THEN lpc' = "closing" /\ lwhy' = "errcode"
       ELSE lpc' = loop_order("errcode") /\ UNCHANGED lwhy
    /\ UNCHANGED <<nmsg, replies, producing, receiver, atask, ws>>
    /\ UNCHANGED <<muxv, hsv, facv, regv, lockv>>

\* after the loop: the loop task sends Close and closes the sink
LoopClose ==
    /\ lpc = "closing"
    /\ lpc' = "closed"
    /\ ws' = IF Closed THEN ws ELSE Append(ws, Close)
    /\ UNCHANGED <<nmsg, replies, producing, receiver, atask, lwhy>>
    /\ UNCHANGED <<muxv, hsv, facv, regv, lockv>>

\* the producer of a streamed request queues its next frame in the async
\* frame channel; it gives up when the channel has lost its receiver
Produce(id) ==
    /\ producing[id] # <<>>
    /\ replies.id = id
    /\ producer_runs(lpc)
    /\ IF atask = "running"
       THEN /\ receiver' = Append(receiver, WsFrame(id, Head(producing[id]), 0))
            /\ producing' = [producing EXCEPT ![id] = Tail(@)]
       ELSE /\ producing' = [producing EXCEPT ![id] = <<>>]
            /\ UNCHANGED receiver
    /\ UNCHANGED <<lpc, nmsg, replies, atask, ws, lwhy>>
    /\ UNCHANGED <<muxv, hsv, facv, regv, lockv>>

\* the async frames task receives a frame, locks the sink and writes it; a
\* failed send ends the task, which sends Close and closes the sink
AsyncSend(ok) ==
    /\ atask = "running"
    /\ receiver # <<>>
    /\ receiver' = Tail(receiver)
    /\ IF ok /\ ~Closed
       THEN /\ ws' = Append(ws, Head(receiver))
            /\ UNCHANGED atask
       ELSE /\ atask' = "ended"
            /\ ws' = IF Closed THEN ws ELSE Append(ws, Close)
    /\ UNCHANGED <<lpc, nmsg, replies, producing, lwhy>>
    /\ UNCHANGED <<muxv, hsv, facv, regv, lockv>>

\* the handler was dropped with the loop task and no producer is left: the
\* channel is closed, recv fails and the async frames task ends
AsyncEnd ==
    /\ atask = "running"
    /\ receiver = <<>>
    /\ lpc = "closed"
    /\ \A id \in LoopIds : producing[id] = <<>>
    /\ atask' = "ended"
    /\ ws' = IF Closed THEN ws ELSE Append(ws, Close)
    /\ UNCHANGED <<lpc, nmsg, replies, producing, receiver, lwhy>>
    /\ UNCHANGED <<muxv, hsv, facv, regv, lockv>>

LoopNext ==
    \/ \E frame \in LoopFrames : LoopRead(frame)
    \/ LoopGone
    \/ \E ok \in BOOLEAN : LoopReply(ok)
    \/ LoopErrcode
    \/ LoopClose
    \/ \E id \in LoopIds : Produce(id)
    \/ \E ok \in BOOLEAN : AsyncSend(ok)
    \/ AsyncEnd

\* ---------------------------------- the tasks at the locks of the tables
\* the tasks that hold a guard of the lock of table l
Holders(l) == {t \in LockTasks : l \in live_guards(tpc[t])}

\* RwLock: a read guard is granted while no write guard is held, a write
\* guard while no guard is held
Free(t, l) == \A u \in Holders(l) \ {t} : mode(t) = "read" /\ mode(u) = "read"

\* task t moves to position q, taking the guards that are alive there
Goto(t, q) ==
    /\ \A l \in live_guards(q) \ live_guards(tpc[t]) : Free(t, l)
    /\ tpc' = [tpc EXCEPT ![t] = q]

\* a call is issued: its actor is started and it requests the write lock of
\* its table
Issue(kind) ==
    /\ tpc["call"] = "idle"
    /\ kind = "stream" => \E c \in CleanupTasks : tpc[c] = "none"
    /\ Goto("call", IF kind = "unary" THEN "u_lock" ELSE "s_lock")
    /\ answered' = FALSE
    /\ UNCHANGED stoppable
    /\ UNCHANGED <<muxv, hsv, facv, regv, loopv>>

\* read() or write() returns the guard to a task that waits for it
Acquire(t) ==
    /\ requests(tpc[t]) # <<>>
    /\ Goto(t, granted(tpc[t]))
    /\ UNCHANGED <<answered, stoppable>>
    /\ UNCHANGED <<muxv, hsv, facv, regv, loopv>>

\* the call has inserted its entry and leaves the block of the guard, or has
\* removed it and returns
Scoped ==
    /\ tpc["call"] \in {"u_insert", "s_insert", "u_remove", "s_remove"}
    /\ Goto("call", CASE tpc["call"] = "u_insert" -> "u_write"
                      [] tpc["call"] = "s_insert" -> "s_write"
                      [] OTHER -> "idle")
    /\ UNCHANGED <<answered, stoppable>>
    /\ UNCHANGED <<muxv, hsv, facv, regv, loopv>>

\* writer.send(frame).await is over: the call goes on to wait for its first
\* response, or returns CannotSend
Written(ok) ==
    /\ tpc["call"] \in {"u_write", "s_write"}
    /\ Goto("call", IF ~ok THEN "idle"
                    ELSE IF tpc["call"] = "u_write" THEN "u_wait" ELSE "s_first")
    /\ UNCHANGED <<answered, stoppable>>
    /\ UNCHANGED <<muxv, hsv, facv, regv, loopv>>

\* the first response has come: a unary call and a streamed call whose
\* first response is an error request the write lock to remove the entry,
\* any other streamed call spawns its cleanup task and returns
FirstReply(err) ==
    /\ answered
    /\ tpc["call"] \in {"u_wait", "s_first"}
    /\ IF tpc["call"] = "u_wait"
       THEN ~err /\ Goto("call", "u_relock")
       ELSE IF err
       THEN Goto("call", "s_relock")
       ELSE \E c \in CleanupTasks :
               /\ tpc[c] = "none"
               /\ \A l \in live_guards("c_wait") : Free(c, l)
               /\ tpc' = [tpc EXCEPT !["call"] = "idle", ![c] = "c_wait"]
    /\ UNCHANGED <<answered, stoppable>>
    /\ UNCHANGED <<muxv, hsv, facv, regv, loopv>>

\* addr.wait_for_stop().await is over: the cleanup task requests the write
\* lock of stream_actors
CleanupWakes(c) ==
    /\ tpc[c] = "c_wait"
    /\ c \in stoppable
    /\ Goto(c, "c_lock")
    /\ stoppable' = stoppable \ {c}
    /\ UNCHANGED answered
    /\ UNCHANGED <<muxv, hsv, facv, regv, loopv>>

\* the cleanup task has removed the entry and ends
CleanupRemoved(c) ==
    /\ tpc[c] = "c_remove"
    /\ Goto(c, "none")
    /\ UNCHANGED <<answered, stoppable>>
    /\ UNCHANGED <<muxv, hsv, facv, regv, loopv>>

\* s.next().await gives the reader task a response: it requests the read
\* lock of actors
ReaderNext ==
    /\ tpc["reader"] = "next"
    /\ Goto("reader", "r_lock")
    /\ UNCHANGED <<answered, stoppable>>
    /\ UNCHANGED <<muxv, hsv, facv, regv, loopv>>

\* the id is a key of actors: the reader sends the message to the actor and
\* leaves the block, or the send fails and the expect() ends the task
ReaderFound(ok) ==
    /\ tpc["reader"] = "r_get"
    /\ Goto("reader", IF ok THEN "next" ELSE "ended")
    /\ answered' = (answered \/ (ok /\ tpc["call"] \in {"u_write", "u_wait"}))
    /\ UNCHANGED stoppable
    /\ UNCHANGED <<muxv, hsv, facv, regv, loopv>>

\* the id is no key of actors: the reader requests the read lock of
\* stream_actors with the guard of actors alive
ReaderMiss ==
    /\ tpc["reader"] = "r_get"
    /\ Goto("reader", "r_lock2")
    /\ UNCHANGED <<answered, stoppable>>
    /\ UNCHANGED <<muxv, hsv, facv, regv, loopv>>

\* the lookup in stream_actors: the message is the first response of the
\* issuing call, or the one on which the actor of an open stream stops, or
\* it changes nothing for the tasks, or the send fails
ReaderStream(what) ==
    /\ tpc["reader"] = "r_get2"
    /\ Goto("reader", IF what = "fails" THEN "ended" ELSE "next")
    /\ IF what = "first"
       THEN /\ tpc["call"] \in {"s_write", "s_first"}
            /\ answered' = TRUE
            /\ UNCHANGED stoppable
       ELSE IF what = "last"
       THEN /\ \E c \in CleanupTasks :
                  /\ tpc[c] = "c_wait"
                  /\ c \notin stoppable
                  /\ stoppable' = stoppable \cup {c}
            /\ UNCHANGED answered
       ELSE UNCHANGED <<answered, stoppable>>
    /\ UNCHANGED <<muxv, hsv, facv, regv, loopv>>

\* the frame stream of the link ends while the reader task waits for a frame
ReaderEnds ==
    /\ tpc["reader"] = "next"
    /\ Goto("reader", "ended")
    /\ UNCHANGED <<answered, stoppable>>
    /\ UNCHANGED <<muxv, hsv, facv, regv, loopv>>

LockNext ==
    \/ \E kind \in {"unary", "stream"} : Issue(kind)
    \/ \E t \in LockTasks : Acquire(t)
    \/ Scoped
    \/ \E ok \in BOOLEAN : Written(ok)
    \/ \E err \in BOOLEAN : FirstReply(err)
    \/ \E c \in CleanupTasks : CleanupWakes(c)
    \/ \E c \in CleanupTasks : CleanupRemoved(c)
    \/ ReaderNext
    \/ \E ok \in BOOLEAN : ReaderFound(ok)
    \/ ReaderMiss
    \/ \E what \in {"first", "last", "other", "fails"} : ReaderStream(what)
    \/ ReaderEnds

\* ------------------------------------------------------ the specification
ReqKinds == {"BlockPut", "AddUser"}

Next ==
    \/ \E req \in ReqKinds : StartUnary(req)
    \/ \E public \in BOOLEAN : StartConnect(public)
    \/ JoinFallback
    \/ StartStream
    \/ WriteOk
    \/ WriteFail
    \/ after
    \/ HeaderErr
    \/ HeaderOk
    \/ \E i \in Ids : Cleanup(i)
    \/ \E i \in Ids : ActorStep(i)
    \/ \E i \in Ids : ActorOrphaned(i)
    \/ \E i \in Ids : Consume(i)
    \/ \E i \in Ids : DropStream(i)
    \/ \E m \in Frames : ReadFrame(m)
    \/ LinkLost

Spec == Init /\ [][Next]_vars

\* the steps the tasks of the client take on their own: the caller resuming
\* from an await, an actor taking an event, a cleanup task finishing
ClientStep ==
    \/ after
    \/ HeaderErr
    \/ HeaderOk
    \/ \E i \in Ids : Cleanup(i)
    \/ \E i \in Ids : ActorStep(i)
    \/ \E i \in Ids : ActorOrphaned(i)

\* the streamed calls of the connection with their actors, cleanup tasks
\* and consumers, the reader task and the link
StreamNext ==
    \/ StartStream
    \/ WriteOk
    \/ WriteFail
    \/ HeaderErr
    \/ HeaderOk
    \/ \E i \in Ids : Cleanup(i)
    \/ \E i \in Ids : ActorStep(i)
    \/ \E i \in Ids : ActorOrphaned(i)
    \/ \E i \in Ids : Consume(i)
    \/ \E i \in Ids : DropStream(i)
    \/ \E m \in Frames : ReadFrame(m)
    \/ LinkLost

\* the executor runs every task that is ready
FairSpec == Init /\ [][StreamNext]_vars /\ WF_vars(ClientStep)

\* the facade operations on a local and a remote connection in lockstep
FacadeSpec == Init /\ [][FacadeNext]_vars

\* the operations of the overlay registry on a store whose writes may fail
RegistrySpec == Init /\ [][RegistryNext]_vars

\* the tasks of one connection at the locks of its pending tables
LockSpec == Init /\ [][LockNext]_vars

\* a task that is neither suspended nor waiting for a lock runs on
LockRuns(t) ==
    \/ t = "call" /\ Scoped
    \/ t \in CleanupTasks /\ CleanupRemoved(t)
    \/ t = "reader" /\ (ReaderMiss \/ \E ok \in BOOLEAN : ReaderFound(ok))
    \/ t = "reader" /\ \E what \in {"first", "last", "other", "fails"} : ReaderStream(what)

\* the code between the taking and the dropping of a guard runs to its
\* end, and a lock that is free again and again is granted to a task that
\* waits for it
LockFairSpec ==
    /\ LockSpec
    /\ \A t \in LockTasks : WF_vars(LockRuns(t)) /\ SF_vars(Acquire(t))

\* the loop task, the async frames task and the producers of one socket of
\* the node daemon
LoopSpec == Init /\ [][LoopNext]_vars

\* open_broker_connection on every transport, against a broker or another
\* peer
HandshakeSpec == Init /\ [][HandshakeNext]_vars

\* -------------------------------------------------------- the properties
UnaryIds == {i \in Ids : akind[i] = "unary"}
StreamIds == {i \in Ids : akind[i] = "stream"}

\* the call with request id i has returned what a response gave it
Answered(i) == ret[i] \notin {"none", "CannotSend"}

\* C1: a unary call that returns on a response returns the result of the
\* first response read with its own request id (the only one when the
\* broker answers once), and every message queued for or delivered to a
\* call carries the id of that call.
C1_UnaryResultIsOwnResponse ==
    \A i \in UnaryIds :
        /\ \A k \in 1..Len(mailbox[i]) :
              mailbox[i][k] = Stop \/ mailbox[i][k].id = i
        /\ slot[i] # <<>> => slot[i][1].id = i
        /\ Answered(i) =>
              /\ log[i] # <<>>
              /\ slot[i] # <<>>
              /\ slot[i][1].result = log[i][1].result
              /\ ret[i] = IF log[i][1].result = OK THEN "Ok" ELSE log[i][1].result

\* C1 witness: a unary call returned the error of its response although a
\* response to another request was read first
C1_Witness ==
    \E i, j \in Ids :
        /\ i # j
        /\ akind[i] = "unary"
        /\ ret[i] = "NotFound"
        /\ Len(log[i]) = 1
        /\ log[j] # <<>>
        /\ ret[j] = "none"

\* a result code that is neither OK nor the stream sentinel
IsErrorCode(r) == r \notin {OK, EndOfStream}

\* C2: a streaming call returns on a response only after the first response
\* with its id was read and handled; it returns Ok and hands out the stream
\* when that response is no error, and returns that response's error and
\* no stream when it is.
C2_StreamCallReturnsOnFirstResponse ==
    \A i \in StreamIds :
        Answered(i) =>
            /\ log[i] # <<>>
            /\ i \notin error_s
            /\ IF IsErrorCode(log[i][1].result)
               THEN ret[i] = log[i][1].result /\ handle[i] = "dropped"
               ELSE ret[i] = "Ok" /\ handle[i] \in {"held", "ended", "dropped"}

\* C2 witness: one streaming call returned Ok, another the error of its
\* first response
C2_Witness ==
    \E i, j \in StreamIds :
        /\ ret[i] = "Ok" /\ handle[i] = "held"
        /\ ret[j] = "NotFound"

RECURSIVE BlocksOf(_)
\* the blocks carried by a sequence of responses or mailbox events, up to
\* the first one that carries none
BlocksOf(q) ==
    IF q = <<>> \/ Head(q).block = NoBlock \/ IsErrorCode(Head(q).result)
    THEN <<>>
    ELSE <<Head(q).block>> \o BlocksOf(Tail(q))

\* the blocks the actor of stream i has yet to queue in its open channel
Pending(i) == IF i \in closed THEN <<>> ELSE BlocksOf(mailbox[i])

\* C3: as long as the consumer holds the stream, the blocks it has taken,
\* followed by those queued in the channel and those the actor has yet to
\* queue, are exactly the blocks read from the link for that id before its
\* terminator, in the order read; at the end of the stream the consumer
\* has taken them all.
C3_BlocksInWireOrder ==
    \A i \in StreamIds :
        /\ handle[i] \in {"held", "ended"} =>
              consumed[i] \o chan[i] \o Pending(i) = BlocksOf(log[i])
        /\ handle[i] = "ended" => consumed[i] = BlocksOf(log[i])

\* C3 witness: the consumer took two different blocks of one stream while a
\* response to another request was read on the same link
C3_Witness ==
    \E i, j \in Ids :
        /\ i # j
        /\ consumed[i] = <<"b2", "b1">>
        /\ log[j] # <<>>

RECURSIVE TerminatorOf(_)
\* the result of the first response of a sequence that carries no block
TerminatorOf(q) ==
    IF q = <<>> THEN "none"
    ELSE IF Head(q).block = NoBlock THEN Head(q).result
    ELSE TerminatorOf(Tail(q))

\* the error that ended stream i after it was opened
TerminalError(i) ==
    IF ret[i] = "Ok" /\ IsErrorCode(TerminatorOf(log[i]))
    THEN TerminatorOf(log[i]) ELSE "none"

\* C4: when an open stream was ended by a response with no block and an
\* error result and the consumer has taken its last block, the channel is
\* closed and the error oneshot, the only way an error of the stream leaves
\* its actor, carries that error.
C4_TerminalErrorDelivered ==
    \A i \in StreamIds :
        (handle[i] = "ended" /\ TerminalError(i) # "none") =>
            /\ i \in closed
            /\ error_r[i] = TerminalError(i)

\* C5: once the link is lost, every pending request is aborted: a call that
\* awaits its response and an open block stream are never left waiting
\* with no task of the client able to take a step.
C5_LinkLossAbortsPending ==
    reader = "ended" =>
        /\ caller.pc = "await" => ENABLED ClientStep
        /\ \A i \in StreamIds :
              (handle[i] = "held" /\ i \notin closed) => ENABLED ClientStep

C7_RequestFrameClosesLink ==
    [][requestSeen => (nread' = nread /\ log' = log)]_vars

\* C8: when a second response has been read for the id of a unary call
\* that was answered, the call has returned the result of the first one,
\* the second one is in no slot, and the reader has stopped reading the
\* link.
C8_DuplicateUnaryResponse ==
    \A i \in UnaryIds :
        (Answered(i) /\ Len(log[i]) >= 2) =>
            /\ ret[i] = ToUnit(log[i][1])
            /\ slot[i][1].result = log[i][1].result
            /\ reader # "running"

\* the request with id i is in flight: its call has not returned, or its
\* stream is open and its cleanup task has not finished
InFlight(i) ==
    \/ caller.pc # "idle" /\ caller.id = i
    \/ i \in cleanup

\* C9: only the ids of requests in flight are keys of a pending table, so
\* both tables are empty whenever no request is in flight.
C9_TablesHoldOnlyInFlight ==
    /\ \A i \in actors \cup stream_actors : InFlight(i)
    /\ (\A i \in Ids : ~InFlight(i)) => (actors = {} /\ stream_actors = {})

RECURSIVE OpFrames(_, _)
\* the frames of the sequence q that operation f wrote, in the order written
OpFrames(q, f) ==
    IF q = <<>> THEN <<>>
    ELSE IF Head(q).op = f THEN <<Head(q)>> \o OpFrames(Tail(q), f)
    ELSE OpFrames(Tail(q), f)

\* the operations that are an overlay_connect, named by their first request
ConnectOps ==
    {f \in Ids : connret[f] # "none" \/ (caller.op = "connect" /\ caller.first = f)}

\* the two overlay ids of the repo link
PublicOverlay == <<"blake3", "repo">>
PrivateOverlay == <<"keyed_hash", <<"derive_key", "secret">>, "repo">>

\* what overlay_connect f has written and returned: OverlayConnect first,
\* for an overlay id of the link; OverlayJoin{secret, peers} for the same
\* overlay only after OverlayNotJoined; any other error of OverlayConnect
\* returned unchanged with no OverlayJoin written; the result of the
\* OverlayJoin returned
ConnectProtocol(f) ==
    LET w == OpFrames(sent, f) IN
    /\ Len(w) >= 1 =>
          /\ w[1].id = f
          /\ w[1].req = "OverlayConnect"
          /\ w[1].overlay \in {PublicOverlay, PrivateOverlay}
    /\ Len(w) >= 2 =>
          /\ ret[f] = "OverlayNotJoined"
          /\ w[2].id = f + 1
          /\ w[2].req = "OverlayJoin"
          /\ w[2].overlay = w[1].overlay
          /\ w[2].content = <<"secret", "peers">>
    /\ connret[f] # "none" =>
          /\ ret[f] # "none"
          /\ ret[f] # "CannotSend" => Len(w) >= 1
          /\ IF ret[f] = "OverlayNotJoined"
             THEN /\ ret[f + 1] = connret[f]
                  /\ connret[f] # "CannotSend" => Len(w) >= 2
             ELSE /\ connret[f] = ret[f]
                  /\ Len(w) <= 1

\* C10 (as specified): overlay_connect follows the protocol above and, after
\* a fallback OverlayJoin that succeeded, retries: it sends OverlayConnect
\* again before it returns.
C10_FallbackAndRetry ==
    \A f \in ConnectOps :
        /\ ConnectProtocol(f)
        /\ (connret[f] = "Ok" /\ ret[f] = "OverlayNotJoined") =>
              /\ Len(OpFrames(sent, f)) >= 3
              /\ OpFrames(sent, f)[3].req = "OverlayConnect"

\* C10 (amended): overlay_connect follows the protocol above and writes
\* nothing after the OverlayJoin: it returns the result of the join without
\* sending OverlayConnect a second time.
C10_FallbackWithoutRetry ==
    \A f \in ConnectOps :
        /\ ConnectProtocol(f)
        /\ Len(OpFrames(sent, f)) <= 2

\* C10 witness: an overlay_connect to the private overlay got
\* OverlayNotJoined, wrote the OverlayJoin and returned the join's error
C10_Witness ==
    \E f \in ConnectOps :
        /\ ret[f] = "OverlayNotJoined"
        /\ connret[f] = "NotFound"
        /\ Len(OpFrames(sent, f)) = 2
        /\ OpFrames(sent, f)[1].overlay = PrivateOverlay

\* the positions of the facade operations invoked so far
Ops == 1..Len(hist)

\* the record of overlay ov in a registry, as a set of at most one record
OverlayRecord(b, ov) == {o \in b.overlays : o.id = ov}

\* C11: when overlay_connect is invoked twice with the same link and flag on
\* one connection, both invocations succeed with the same overlay id, and
\* the broker's record of that overlay (secret, peers, topics, users) after
\* the second invocation equals the record after the first.
C11_OverlayConnectIdempotent ==
    \A side \in Sides : \A j, k \in Ops :
        (/\ j < k
         /\ hist[j].op = "overlay_connect" /\ hist[k].op = "overlay_connect"
         /\ hist[j].arg.public = hist[k].arg.public) =>
            /\ hist[j].res[side].tag = "Ok"
            /\ hist[k].res[side].tag = "Ok"
            /\ hist[j].res[side].overlay = <<overlay(RepoLink, hist[j].arg.public)>>
            /\ hist[k].res[side].overlay = hist[j].res[side].overlay
            /\ OverlayRecord(hist[k].post[side], hist[k].res[side].overlay[1])
                 = OverlayRecord(hist[j].post[side], hist[j].res[side].overlay[1])

\* C11 witness: the remote connection connected twice to the private overlay;
\* the first invocation joined it on the broker, the second found it joined
C11_Witness ==
    \E j, k \in Ops :
        /\ k = j + 1
        /\ hist[j].op = "overlay_connect" /\ hist[k].op = "overlay_connect"
        /\ ~hist[j].arg.public /\ ~hist[k].arg.public
        /\ OverlayRecord(hist[j].pre["remote"], PrivateOverlay) = {}
        /\ OverlayRecord(hist[j].post["remote"], PrivateOverlay) # {}
        /\ hist[k].post["remote"] = hist[k].pre["remote"]
        /\ hist[k].res["remote"].tag = "Ok"

\* C12: the same sequence of facade operations returns the same results on
\* the local and on the remote connection and leaves the overlay registry,
\* the users and the block store of the two brokers in the same state.
C12_LocalEqualsRemote ==
    /\ broker["local"] = broker["remote"]
    /\ \A k \in Ops : hist[k].op # "local_request" =>
          hist[k].res["local"] = hist[k].res["remote"]

\* the transports on which open_broker_connection was called
Called(t) == hpc[t] \notin {"closed", "raw"}

\* what open_broker_connection sends and reads, in the order of the handshake
HsOrder ==
    << <<"send", "Auth">>, <<"recv", "ServerHello">>,
       <<"send", "ClientAuth">>, <<"recv", "AuthResult">> >>

HsKind(e) == <<e[1], e[2]>>

InHandshakeOrder(t) ==
    \A k \in 1..Len(hlog[t]) :
        IF k <= Len(HsOrder)
        THEN HsKind(hlog[t][k]) = HsOrder[k]
        ELSE HsKind(hlog[t][k]) = <<"send", "BrokerMessage">>

\* the code of the AuthResult open_broker_connection has read, if any
ResultRead(t) ==
    IF Len(hlog[t]) >= Len(HsOrder) THEN <<hlog[t][Len(HsOrder)][3]>> ELSE <<>>

\* C13: open_broker_connection sends Auth(ClientHello), reads the
\* ServerHello, sends the ClientAuth and reads the AuthResult in that order;
\* it returns a connection, with its reader task started, if and only if
\* the result is 0, and on a non-zero result it returns the ProtocolError of
\* that code and no BrokerMessage is ever sent on the transport.
C13_HandshakeOrderAndResult ==
    \A t \in Sessions : Called(t) =>
        /\ InHandshakeOrder(t)
        /\ hpc[t] = "ready" <=> ResultRead(t) = <<0>>
        /\ (ResultRead(t) # <<>> /\ ResultRead(t) # <<0>>) =>
               /\ try_from(ResultRead(t)[1]) = <<hret[t]>>
               /\ Requests(t) = 0

\* the ClientAuth written on a transport, if any
AuthSent(t) == Len(c2s[t]) >= 2 /\ c2s[t][2].type = "ClientAuth"

Answered15(t) == spc[t].pc \in {"authenticated", "rejected"}

C16_SecondAddUserFails ==
    \A side \in Sides : \A j, k \in Ops :
        (/\ j < k
         /\ hist[j].op = "add_user" /\ hist[k].op = "add_user"
         /\ hist[j].arg.user = hist[k].arg.user
         /\ hist[j].res[side].tag = "Ok") =>
            /\ hist[k].res[side] = RErr("UserAlreadyExists")
            /\ hist[k].post[side].users = hist[k].pre[side].users
            /\ hist[k].arg.user \in hist[k].post[side].users

\* a user was added on both connections and then added again
C16_Witness ==
    \E j, k \in Ops :
        /\ j < k
        /\ hist[j].op = "add_user" /\ hist[k].op = "add_user"
        /\ hist[j].arg.user = hist[k].arg.user
        /\ \A side \in Sides :
               /\ hist[j].res[side].tag = "Ok"
               /\ hist[j].arg.user \notin hist[j].pre[side].users
               /\ hist[k].res[side].tag = "Err"

\* no object was deleted between the operations j and k
NoDelBetween(j, k) == \A m \in Ops : (j < m /\ m < k) => hist[m].op # "object_del"

\* C17: after put_block(b) has returned the id of b, get_block(id, false,
\* None) on the overlay, with no deletion in between, yields a stream of
\* exactly one item, the block b, and then ends.
C17_PutGetRoundTrip ==
    \A side \in Sides : \A j, k \in Ops :
        (/\ j < k
         /\ hist[j].op = "put_block" /\ hist[j].res[side].tag = "Ok"
         /\ hist[k].op = "get_block" /\ ~hist[k].arg.include_children
         /\ hist[k].arg.id = block_id(hist[j].arg.block)
         /\ NoDelBetween(j, k)) =>
            /\ hist[j].res[side].id = <<block_id(hist[j].arg.block)>>
            /\ hist[k].res[side].tag = "Ok"
            /\ hist[k].res[side].blocks = <<hist[j].arg.block>>

\* a block with children was put and then read back without its children
C17_Witness ==
    \E j, k \in Ops :
        /\ j < k
        /\ hist[j].op = "put_block" /\ hist[j].arg.block = "root"
        /\ block_id("root") \notin {block_id(x) : x \in hist[j].pre["remote"].store}
        /\ hist[k].op = "get_block" /\ ~hist[k].arg.include_children
        /\ hist[k].arg.id = block_id("root")
        /\ \A side \in Sides : hist[k].res[side].blocks = <<"root">>

RECURSIVE Reach(_, _, _)
\* the stored blocks reachable from the blocks of R through stored blocks,
\* in at most n steps
Reach(store, R, n) ==
    IF n = 0 THEN R
    ELSE Reach(store,
               R \cup {x \in store : \E y \in R : \E c \in 1..Len(children(y)) :
                                         children(y)[c] = block_id(x)},
               n - 1)

\* the block with that id and its stored descendants
Tree(store, id) ==
    Reach(store, {x \in store : block_id(x) = id}, Cardinality(store))

\* the operations that send a BlockGet with include_children
RecursiveGets ==
    {k \in Ops : \/ hist[k].op = "get_object"
                  \/ (hist[k].op = "get_block" /\ hist[k].arg.include_children)}

\* C18: the responses to a BlockGet(id, include_children = true) of a
\* stored block begin with the root, carry the root and every stored
\* descendant exactly once, and end with exactly one EndOfStream response,
\* the last of the sequence.
C18_RecursiveGetStream ==
    \A k \in RecursiveGets :
        LET f == hist[k].frames
            store == hist[k].pre["remote"].store
            n == Len(f) - 1
        IN  Tree(store, hist[k].arg.id) # {} =>
                /\ n >= 1
                /\ block_id(f[1].block) = hist[k].arg.id
                /\ \A i \in 1..n : f[i].result = OK /\ f[i].block # NoBlock
                /\ \A i \in 1..Len(f) : f[i].id = f[1].id
                /\ {f[i].block : i \in 1..n} = Tree(store, hist[k].arg.id)
                /\ \A i, j \in 1..n : i # j => f[i].block # f[j].block
                /\ f[Len(f)].result = EndOfStream /\ f[Len(f)].block = NoBlock

\* the whole object, whose leaf is the child of two blocks, was stored and
\* read with its children: four blocks and the terminator
C18_Witness ==
    \E k \in RecursiveGets :
        /\ hist[k].arg.id = ObjectId
        /\ hist[k].pre["remote"].store = TreeBlocks
        /\ Len(hist[k].frames) = Cardinality(TreeBlocks) + 1

\* C19: a BlockGet of a block that is not stored is answered by exactly one
\* response, with NotFound and no block; get_block returns Err(NotFound)
\* with no stream, on the local connection too, and the remote connection
\* keeps no entry for the request among its stream actors.
C19_MissingRootNotFound ==
    \A k \in Ops : hist[k].op = "get_block" =>
        /\ Tree(hist[k].pre["remote"].store, hist[k].arg.id) = {} =>
               /\ Len(hist[k].frames) = 1
               /\ hist[k].frames[1].result = "NotFound"
               /\ hist[k].frames[1].block = NoBlock
               /\ hist[k].res["remote"] = RErr("NotFound")
               /\ hist[k].res["remote"].blocks = <<>>
               /\ hist[k].pending = {}
        /\ Tree(hist[k].pre["local"].store, hist[k].arg.id) = {} =>
               /\ hist[k].res["local"] = RErr("NotFound")
               /\ hist[k].res["local"].blocks = <<>>

\* a block was requested, with and without children, that the broker does
\* not store although it stores one of its children
C19_Witness ==
    \E k \in Ops :
        /\ hist[k].op = "get_block" /\ hist[k].arg.id = block_id("left")
        /\ hist[k].pre["remote"].store = {"leaf"}
        /\ hist[k].res["remote"].tag = "Err"

\* C20: after put_object has stored an object and object_del has deleted
\* it, with nothing put in between, get_object for its id returns NotFound.
C20_DeletedObjectNotFound ==
    \A side \in Sides : \A i, j, k \in Ops :
        (/\ i < j /\ j < k
         /\ hist[i].op = "put_object" /\ hist[i].res[side].tag = "Ok"
         /\ hist[j].op = "object_del"
         /\ hist[k].op = "get_object"
         /\ \A m \in Ops : (j < m /\ m < k) => hist[m].op \notin {"put_object", "put_block"}) =>
            hist[k].res[side] = RErr("NotFound")

\* a step that is an operation of the overlay registry
RegStep(op) == rlast'.n = rlast.n + 1 /\ rlast'.op = op

\* the suffixes of an overlay that hold a value
Held(s, id) == {prop \in DOMAIN s[id] : Stored(s, id, prop) # {}}

\* C22: Overlay::create on an id whose overlay exists fails with
\* AlreadyExists and leaves the secret, repo, metadata, peers and topics of
\* the overlay as they were.
C22_CreateExistingFails ==
    [][(RegStep("create") /\ overlay_exists(kv, rlast'.id)) =>
          /\ rlast'.res = "AlreadyExists"
          /\ kv' = kv]_vars

\* C23: when one of the store writes of Overlay::create fails, create
\* returns an error and nothing of the overlay is stored: the overlay
\* does not exist, open returns NotFound and a later create succeeds.
C23_CreateIsAtomic ==
    [][(RegStep("create") /\ ~overlay_exists(kv, rlast'.id) /\ rlast'.res # "Ok") =>
          /\ kv' = kv
          /\ ~overlay_exists(kv', rlast'.id)
          /\ overlay_open(kv', rlast'.id) = "NotFound"
          /\ \A secret \in Secrets, now \in Timestamps :
                 overlay_create(kv', rlast'.id, secret, <<>>, now, 0).res = "Ok"]_vars

\* C24: Overlay::open returns a handle exactly when the secret of the
\* overlay is stored and NotFound otherwise, whatever else is stored of
\* the overlay.
C24_OpenIffSecret ==
    rlast.op = "open" =>
        /\ rlast.res = "Ok" <=> Stored(kv, rlast.id, SECRET) # {}
        /\ rlast.res # "Ok" => rlast.res = "NotFound"

\* an overlay that has a peer and metadata stored but no secret was
\* opened, and so was one whose secret is stored
C24_Witness ==
    /\ rlast.op = "open" /\ rlast.res = "NotFound"
    /\ {PEER, META} \subseteq Held(kv, rlast.id)
    /\ \E id \in Overlays : Stored(kv, id, SECRET) # {}

\* C25: after a del that succeeded no secret, peer, topic, metadata or repo
\* of the overlay is stored, open returns NotFound and create of the same
\* id succeeds; what is stored of the other overlays is unchanged.
C25_DelRemovesAll ==
    [][(RegStep("del") /\ rlast'.res = "Ok") =>
          /\ Held(kv', rlast'.id) = {}
          /\ overlay_open(kv', rlast'.id) = "NotFound"
          /\ \A secret \in Secrets, now \in Timestamps :
                 overlay_create(kv', rlast'.id, secret, <<>>, now, 0).res = "Ok"
          /\ \A id \in Overlays \ {rlast'.id} : kv'[id] = kv[id]]_vars

\* an overlay with a secret, a repo, metadata and a peer was deleted while
\* another overlay is stored
C25_Witness ==
    /\ rlast.op = "del" /\ rlast.res = "Ok"
    /\ {SECRET, PEER, META, REPO} \subseteq rlast.had
    /\ \E id \in Overlays \ {rlast.id} : {SECRET, META} \subseteq Held(kv, id)

\* C26: has_peer (has_topic) succeeds exactly for the members whose last
\* add or remove was an add; an add of a member already present leaves the
\* store as it was; one remove makes a member absent however many times
\* it was added.
C26_SetSemantics ==
    /\ [](\A id \in Overlays, prop \in {PEER, TOPIC} : \A v \in PropValues(prop) :
             has_member(kv, id, prop, v) = "Ok" <=> rmem[id][prop][v] > 0)
    /\ [](rlast.op = "has" => (rlast.res = "Ok" <=> rlast.added > 0))
    /\ [][(RegStep("add") /\ rlast'.res = "Ok" /\ rlast'.added > 0) => kv' = kv]_vars
    /\ [][RegStep("remove") =>
            \A v \in PropValues(rlast'.prop) :
                rmem[rlast'.id][rlast'.prop][v] # rmem'[rlast'.id][rlast'.prop][v] =>
                    has_member(kv', rlast'.id, rlast'.prop, v) = "NotFound"]_vars

\* a member that was added twice has been removed once and is absent
C26_Witness ==
    /\ rlast.op = "remove" /\ rlast.res = "Ok" /\ rlast.added = 2
    /\ overlay_exists(kv, rlast.id)
    /\ \A v \in PropValues(rlast.prop) : has_member(kv, rlast.id, rlast.prop, v) = "NotFound"

\* the sequence without its elements that occurred earlier in it
RECURSIVE FirstOccurrences(_, _)
FirstOccurrences(seq, seen) ==
    IF seq = <<>> THEN <<>>
    ELSE IF Head(seq) \in seen THEN FirstOccurrences(Tail(seq), seen)
    ELSE <<Head(seq)>> \o FirstOccurrences(Tail(seq), seen \cup {Head(seq)})

\* C27: put_object calls put_block exactly once for each distinct block id
\* of the object, in the order of the assembler's list, and when every put
\* succeeded it returns the id of the root.
C27_PutObjectDeduplicates ==
    \A k \in Ops : \A side \in Sides : hist[k].op = "put_object" =>
        LET puts == hist[k].puts[side] IN
        /\ \A i, j \in 1..Len(puts) : block_id(puts[i]) = block_id(puts[j]) => i = j
        /\ hist[k].res[side].tag = "Ok" =>
               /\ puts = FirstOccurrences(ObjectBlocks, {})
               /\ hist[k].res[side].id = <<ObjectId>>
               /\ {puts[i] : i \in 1..Len(puts)} \subseteq hist[k].post[side].store
        /\ hist[k].res[side].tag = "Err" =>
               \E n \in 1..Len(FirstOccurrences(ObjectBlocks, {})) :
                   puts = SubSeq(FirstOccurrences(ObjectBlocks, {}), 1, n)
C27_Witness ==
    \E k \in Ops :
        /\ hist[k].op = "put_object"
        /\ \E i, j \in 1..Len(ObjectBlocks) : i # j /\ ObjectBlocks[i] = ObjectBlocks[j]
        /\ \A side \in Sides :
               /\ hist[k].res[side] = [ROk EXCEPT !.id = <<ObjectId>>]
               /\ Len(hist[k].puts[side]) = Cardinality(TreeBlocks)
               /\ Len(hist[k].puts[side]) < Len(ObjectBlocks)

\* the request with id i is over for its caller: its stream has been sent
\* its terminator or was dropped by the consumer, or its unary call has its
\* response
Finished(i) ==
    \/ /\ akind[i] = "stream"
       /\ \/ TerminatorOf(log[i]) # "none"
          \/ handle[i] = "dropped"
    \/ /\ akind[i] = "unary"
       /\ slot[i] # <<>>

\* C28: a response read for an id whose stream has had its terminator or
\* was cancelled, or whose unary call is resolved, is discarded silently,
\* also while the entry of the id is still in its table: it changes nothing
\* the caller or the consumer of that id sees, and the reader keeps running.
C28_LateFrameDiscarded ==
    [][\A i \in Ids : (Finished(i) /\ log'[i] # log[i]) =>
            /\ reader' = "running"
            /\ ret'[i] = ret[i]
            /\ slot'[i] = slot[i]
            /\ consumed'[i] = consumed[i]
            /\ chan'[i] = chan[i]]_vars

\* the reader reads the next frame of the link
ReaderStep == \E m \in Frames : ReadFrame(m)

\* stream i holds blocks its consumer has not taken
Undrained(i) == akind[i] = "stream" /\ handle[i] = "held" /\ chan[i] # <<>>

\* C29: blocks a consumer has not drained block nothing: the reader can
\* still read the next frame, a response it reads for another pending id is
\* queued for the actor of that id, every actor can take the next event of
\* its mailbox, and a call whose response has been handled can return.
C29_SlowStreamBlocksNothing ==
    /\ [](\A i \in Ids : Undrained(i) =>
            /\ (reader = "running" /\ nread < MaxFrames) => ENABLED ReaderStep
            /\ \A j \in Ids : (astate[j] = "running" /\ mailbox[j] # <<>>) =>
                   ENABLED ActorStep(j)
            /\ (caller.pc = "await" /\ astate[caller.id] = "stopped") =>
                   ENABLED (after \/ HeaderErr \/ HeaderOk))
    /\ [][\A i, j \in Ids :
            (/\ i # j /\ Undrained(i)
             /\ log'[j] # log[j]
             /\ Lookup(j) # "none" /\ j \in addr /\ astate[j] = "running") =>
                /\ Len(mailbox'[j]) = Len(mailbox[j]) + 1
                /\ mailbox'[j][Len(mailbox'[j])].id = j
                /\ mailbox'[j][Len(mailbox'[j])].result = log'[j][Len(log'[j])].result
                /\ reader' = "running"]_vars

\* C29 witness: two blocks of a stream are queued and none was taken, and a
\* unary call issued afterwards has returned Ok on its response
C29_Witness ==
    \E i, j \in Ids :
        /\ i # j
        /\ Undrained(i) /\ Len(chan[i]) = 2 /\ consumed[i] = <<>>
        /\ akind[j] = "unary"
        /\ log[j] # <<>>
        /\ ret[j] = "Ok"

\* the last message read was a request the broker completed with an error
PerRequestError == replies.kind = "request" /\ replies.code # 0

\* C21: a request that fails on the broker does not close the link: its
\* error is written as the result code of its reply, and after the reply
\* the loop task is back at reading the next message; the loop is left only
\* on a handler error, a failed send, the error code of an authentication or
\* the close of the client.
C21_RequestErrorKeepsLink ==
    /\ [][(PerRequestError /\ lpc = "reply" /\ lpc' = "errcode") =>
             ws' = Append(ws, WsFrame(replies.id, "reply", replies.code))]_vars
    /\ [][(PerRequestError /\ lpc = "errcode" /\ lpc' # lpc) =>
             (lpc' = "read" /\ lwhy' = "none" /\ ws' = ws)]_vars
    /\ [](lwhy = "errcode" => replies.kind = "auth")
    /\ [](lwhy = "ProtocolError" => replies.kind = "undecodable")

\* C21 witness: the reply of a failed request is on the socket, followed by
\* the reply of the next request, and nothing has closed the socket
C21_Witness ==
    /\ ~Closed
    /\ lwhy = "none"
    /\ \E k \in 1..Len(ws) : \E j \in 1..Len(ws) :
          /\ k < j
          /\ ws[k].kind = "reply" /\ ws[k].code # 0 /\ ws[k].id = 1
          /\ ws[j].kind = "reply" /\ ws[j].id = 2
    /\ replies.kind = "request"

C40_StaleHandleWritesNothing ==
    [][((RegStep("add") \/ RegStep("set_metadata")) /\ ~overlay_exists(kv, rlast'.id)) =>
          /\ rlast'.res = "BackendError"
          /\ kv' = kv]_vars

\* C40 witness: an add on an overlay that still holds metadata but whose
\* secret a del has removed failed with BackendError
C40_Witness ==
    /\ rlast.op = "add"
    /\ rlast.res = "BackendError"
    /\ META \in rlast.had
    /\ SECRET \notin rlast.had
    /\ rlast.prop \notin Held(kv, rlast.id)

\* the blocks of the sequence, as a set
Range(seq) == {seq[i] : i \in 1..Len(seq)}

\* C39: put_object stops at the first put_block that fails: it returns the
\* error of that put, the failed put is the last it sent, and the blocks put
\* before it stay in the store.
C39_PutObjectStopsAtFirstError ==
    \A k \in Ops : \A side \in Sides :
        (hist[k].op = "put_object" /\ hist[k].arg.refused # "none") =>
            LET puts == hist[k].puts[side]
                all == FirstOccurrences(ObjectBlocks, {})
            IN  /\ hist[k].res[side] = RErr("StorageError")
                /\ puts # <<>>
                /\ puts = SubSeq(all, 1, Len(puts))
                /\ puts[Len(puts)] = hist[k].arg.refused
                /\ hist[k].post[side].store =
                       hist[k].pre[side].store \cup Range(SubSeq(puts, 1, Len(puts) - 1))

\* C39 witness: the third put_block of an upload into an empty store failed:
\* two blocks are stored, the root and the block that failed are not
C39_Witness ==
    \E k \in Ops :
        /\ hist[k].op = "put_object"
        /\ hist[k].arg.refused = "right"
        /\ \A side \in Sides :
              /\ hist[k].pre[side].store = {}
              /\ hist[k].puts[side] = <<"leaf", "left", "right">>
              /\ hist[k].post[side].store = {"leaf", "left"}
              /\ hist[k].res[side].tag = "Err"

Sent36(t, what) == \E k \in 1..Len(hlog[t]) : hlog[t][k] = <<"send", what>>
Received36(t, what) == \E k \in 1..Len(hlog[t]) : hlog[t][k] = <<"recv", what>>

\* the call on transport t has failed on a write or on the end of the
\* transport
HandshakeFailed(t) == hret[t] \in {"CannotSend", "InvalidState"} /\ ~Received36(t, "AuthResult")

\* the step in which the call on transport t returns
Returns36(t) ==
    /\ hpc[t] \in {"closed", "hello_sent", "auth_sent"}
    /\ hpc'[t] \notin {"closed", "hello_sent", "auth_sent", "raw"}
    /\ hret'[t] # "Ok"

\* C36: a handshake that cannot complete never yields a connection: when
\* a handshake write fails open_broker_connection returns CannotSend, when
\* the transport ends before the ServerHello or before the AuthResult it
\* returns InvalidState, in the first case without having sent a
\* ClientAuth, and in all these cases no connection is opened, so that no
\* reader task runs and no request is ever written.
C36_FailedHandshakeYieldsNoConnection ==
    /\ [](\A t \in Sessions : HandshakeFailed(t) =>
             /\ hpc[t] = "returned"
             /\ ~Sent36(t, "BrokerMessage")
             /\ Requests(t) = 0)
    /\ [][\A t \in Sessions :
             /\ (Returns36(t) /\ hpc[t] = "closed") =>
                   \* the write of the hello failed
                   /\ hret'[t] = "CannotSend"
                   /\ hpc'[t] = "returned"
                   /\ c2s'[t] = c2s[t]
             /\ (Returns36(t) /\ hpc[t] = "hello_sent" /\ hlog'[t] = hlog[t]) =>
                   \* the transport ended before the ServerHello
                   /\ hret'[t] = "InvalidState"
                   /\ hpc'[t] = "returned"
                   /\ ~Sent36(t, "ClientAuth")
                   /\ c2s'[t] = c2s[t]
             /\ (Returns36(t) /\ hpc[t] = "hello_sent" /\ hlog'[t] # hlog[t]
                   /\ ~sign_fails(hcfg[t].user)) =>
                   \* the write of the ClientAuth failed
                   /\ hret'[t] = "CannotSend"
                   /\ hpc'[t] = "returned"
                   /\ c2s'[t] = c2s[t]
             /\ (Returns36(t) /\ hpc[t] = "auth_sent" /\ hlog'[t] = hlog[t]) =>
                   \* the transport ended before the AuthResult
                   /\ hret'[t] = "InvalidState"
                   /\ hpc'[t] = "returned"
             /\ hpc[t] = "returned" => hpc'[t] = "returned"]_vars

\* one call failed on the write of its ClientAuth after the ServerHello,
\* another on a transport that ended after its ClientAuth
C36_Witness ==
    \E t, u \in Sessions :
        /\ hret[t] = "CannotSend" /\ Received36(t, "ServerHello") /\ ~Sent36(t, "ClientAuth")
        /\ hret[u] = "InvalidState" /\ Sent36(u, "ClientAuth") /\ ~Received36(u, "AuthResult")
        /\ hpc[t] = "returned" /\ hpc[u] = "returned"

\* the reader task reads an overlay message carrying an Event
ReadsEvent == \E m \in EventFrames : ReadFrame(m)

\* C35: a frame that is neither a request nor a response (an overlay
\* message carrying an Event) is skipped by the reader task: no pending
\* table changes, nothing is queued for an actor or recorded for an id, no
\* call is resolved, and the reader task keeps running and is ready for the
\* next frame.
C35_EventFrameSkipped ==
    [][(eventSeen' # eventSeen \/ ReadsEvent) =>
          /\ ReadsEvent
          /\ actors' = actors /\ stream_actors' = stream_actors
          /\ mailbox' = mailbox /\ log' = log
          /\ slot' = slot /\ ret' = ret /\ error_r' = error_r
          /\ chan' = chan /\ caller' = caller
          /\ reader' = "running"]_vars

\* an event frame was read while a call was waiting for its response, and
\* the response read after it has resolved the call
C35_Witness ==
    /\ eventSeen /\ ~requestSeen
    /\ reader = "running"
    /\ \E i \in Ids :
          /\ akind[i] = "unary"
          /\ Len(log[i]) = 1
          /\ nread = 2
          /\ ret[i] = "Ok"

\* C34: when writing the request frame fails the call returns CannotSend,
\* the reader task and with it the link are left as they were, and the id
\* of the failed request is a key of neither pending table.
C34_WriteFailureLeavesNoEntry ==
    [][WriteFail =>
          /\ ret'[caller.id] = "CannotSend"
          /\ reader' = reader
          /\ caller.id \notin actors' \cup stream_actors']_vars

\* the table in which the call with request id i installs its entry
TableOf(i) == IF akind[i] = "unary" THEN actors ELSE stream_actors

\* C31: the pending-table entry of a request is installed before its frame
\* is handed to the writer: in the step that writes the frame of id i, i is
\* already a key of its table, and it stays one as long as the call waits
\* for its first response, so that every response to a written request that
\* the reader reads while the call waits finds the id in the table.
C31_EntryInstalledBeforeWrite ==
    /\ [](caller.pc \in {"write", "await"} => caller.id \in TableOf(caller.id))
    /\ [][sent' # sent =>
             /\ Len(sent') = Len(sent) + 1
             /\ sent'[Len(sent')].id = caller.id
             /\ caller.id \in TableOf(caller.id)]_vars
    /\ [][\A i \in Ids :
             (/\ log'[i] # log[i]
              /\ caller.id = i /\ caller.pc = "await"
              /\ astate[i] = "running") =>
                 /\ Lookup(i) # "none"
                 /\ Len(mailbox'[i]) = Len(mailbox[i]) + 1
                 /\ mailbox'[i][Len(mailbox'[i])].id = i]_vars

\* the response to a streamed request was read right after the request was
\* written and was queued for the actor of the request
C31_Witness ==
    \E i \in Ids :
        /\ akind[i] = "stream"
        /\ caller.id = i /\ caller.pc = "await"
        /\ Len(sent) = 1 /\ sent[1].id = i
        /\ nread = 1 /\ Len(log[i]) = 1
        /\ Len(mailbox[i]) = 1

\* the ids that requests of the connection have been given so far
Assigned == {i \in Ids : akind[i] # "none"}

\* C32: the request ids of one connection are unique: a call is given an id
\* that no earlier call, unary or streamed, was given, the frames written
\* carry pairwise different ids, and no id is a key of both pending tables
\* (the unary table holds ids of unary calls only, the stream table ids of
\* streamed calls only).
C32_RequestIdsUnique ==
    /\ [](/\ actors \cap stream_actors = {}
          /\ actors \subseteq UnaryIds
          /\ stream_actors \subseteq StreamIds
          /\ \A j, k \in 1..Len(sent) : j # k => sent[j].id # sent[k].id
          /\ \A i \in Assigned : i < nextId)
    /\ [][(caller'.id # caller.id /\ caller'.id # 0) =>
             /\ caller'.id \notin Assigned
             /\ caller'.id \notin actors \cup stream_actors
             /\ Assigned' = Assigned \cup {caller'.id}
             /\ nextId' > nextId]_vars
    /\ [][\A i \in Assigned : akind'[i] = akind[i]]_vars

\* a unary and a streamed request were written and both tables hold an
\* entry at once, under different ids
C32_Witness ==
    /\ Len(sent) = 2
    /\ actors # {} /\ stream_actors # {}
    /\ \E i \in actors, j \in stream_actors : i # j /\ sent[1].id = j /\ sent[2].id = i

\* task t is suspended in an await
Suspended(t) == awaits(tpc[t])

\* C33: no task is suspended while it holds a guard of a pending-table
\* lock: the issuing call has dropped its write guard when it awaits the
\* write of the frame or its first response, a cleanup task that waits for
\* its actor holds none, the reader task holds none while it waits for a
\* frame and is at no await from the taking of the read guard of actors to
\* the dropping of its guards; and a write guard is held alone.
C33_NoAwaitUnderLock ==
    /\ \A t \in LockTasks : Suspended(t) => \A l \in {"actors", "stream_actors"} : t \notin Holders(l)
    /\ tpc["reader"] \in {"r_get", "r_lock2", "r_get2"} => ~Suspended("reader")
    /\ \A l \in {"actors", "stream_actors"} : \A t, u \in Holders(l) :
           t # u => (mode(t) = "read" /\ mode(u) = "read")

\* the reader task holds both read guards while the issuing call is
\* suspended in the write of its frame and a cleanup task waits for its actor
C33_Witness ==
    /\ tpc["reader"] = "r_get2"
    /\ tpc["call"] = "s_write"
    /\ \E c \in CleanupTasks : tpc[c] = "c_wait"

\* task t has requested a lock and does not hold it yet
Requesting(t) == requests(tpc[t]) # <<>>

\* task t waits for a lock of which task u holds a guard
WaitsFor(t, u) == Requesting(t) /\ u # t /\ u \in Holders(requests(tpc[t])[1])

====
